---- MODULE Spec2Model ----
(***************************************************************************)
(* Drive-to-Sheets ingestion pipeline of BigBasketScheduler (src/app.py):  *)
(* ledger gate, table cleaning, append to the destination sheet and the    *)
(* duplicate-removal (compaction) pass; then the functions it relies on,   *)
(* each called on its own: the reader chain, the raw-XML recovery, the     *)
(* attachment upload and run_complete_workflow.                            *)
(*                                                                         *)
(* Texts are TLA+ strings; they are taken apart with Len and SubSeq, so    *)
(* strip(), int(), float() and the sheet's number formatting are computed. *)
(* The destination sheet is held as values().get returns it: a sequence of *)
(* rows of formatted texts, trailing blank cells and rows trimmed.         *)
(***************************************************************************)
EXTENDS Integers, Sequences, FiniteSets, TLC

(***************************************************************************)
(* Bounds of the model.                                                    *)
(***************************************************************************)
MaxRuns == 2

MaxListing == 2

MaxFaults == 1

MaxCompactRows == 3

(***************************************************************************)
(* Text helpers (Python str methods).                                      *)
(***************************************************************************)
\* The characters of the model's texts, in code-point order.
Alphabet == " '.0123456789:ABCDEFGHIJKLMNOPQRSTUVWXYZ_abcdefghijklmnopqrstuvwxyz"

CharAt(s, i) == SubSeq(s, i, i)

\* Position of a character in code-point order (ord(c), up to a monotone map).
Ord(c) == CHOOSE i \in 1..Len(Alphabet) : CharAt(Alphabet, i) = c

IsDigit(c) == Ord(c) >= Ord("0") /\ Ord(c) <= Ord("9")

IsUpper(c) == Ord(c) >= Ord("A") /\ Ord(c) <= Ord("Z")

\* str.lower() on one character.
LowerChar(c) == IF IsUpper(c) THEN CharAt(Alphabet, Ord(c) - Ord("A") + Ord("a")) ELSE c

RECURSIVE Lower(_)
Lower(s) == IF s = "" THEN ""
            ELSE LowerChar(CharAt(s, 1)) \o Lower(SubSeq(s, 2, Len(s)))

RECURSIVE LStrip(_)
LStrip(s) == IF s # "" /\ CharAt(s, 1) = " " THEN LStrip(SubSeq(s, 2, Len(s))) ELSE s

RECURSIVE RStrip(_)
RStrip(s) == IF s # "" /\ CharAt(s, Len(s)) = " " THEN RStrip(SubSeq(s, 1, Len(s) - 1)) ELSE s

\* str.strip()
Strip(s) == RStrip(LStrip(s))

\* sub in s
Contains(s, sub) == \E i \in 1..(Len(s) - Len(sub) + 1) : SubSeq(s, i, i + Len(sub) - 1) = sub

HasChar(s, c) == \E i \in 1..Len(s) : CharAt(s, i) = c

\* Unicode order of two texts (Python's < on str).
RECURSIVE StrLess(_, _)
StrLess(a, b) ==
    IF b = "" THEN FALSE
    ELSE IF a = "" THEN TRUE
    ELSE IF CharAt(a, 1) = CharAt(b, 1)
         THEN StrLess(SubSeq(a, 2, Len(a)), SubSeq(b, 2, Len(b)))
         ELSE Ord(CharAt(a, 1)) < Ord(CharAt(b, 1))

(***************************************************************************)
(* Numbers: int(), float() and the text the sheet shows for a number.      *)
(* A number is [num, scale]: num / 10^scale, scale >= 0.                   *)
(***************************************************************************)
RECURSIVE Pow10(_)
Pow10(k) == IF k <= 0 THEN 1 ELSE 10 * Pow10(k - 1)

RECURSIVE DigitsValue(_)
DigitsValue(s) == IF s = "" THEN 0
                  ELSE 10 * DigitsValue(SubSeq(s, 1, Len(s) - 1))
                       + (Ord(CharAt(s, Len(s))) - Ord("0"))

RECURSIVE IntText(_)
IntText(n) == IF n < 10 THEN CharAt("0123456789", n + 1)
              ELSE IntText(n \div 10) \o CharAt("0123456789", (n % 10) + 1)

\* A run of decimal digits, single underscores allowed between digits.
DigitPart(s) ==
    /\ s # ""
    /\ IsDigit(CharAt(s, 1))
    /\ IsDigit(CharAt(s, Len(s)))
    /\ \A k \in 1..Len(s) : IsDigit(CharAt(s, k)) \/ CharAt(s, k) = "_"
    /\ \A k \in 1..(Len(s) - 1) : ~(CharAt(s, k) = "_" /\ CharAt(s, k + 1) = "_")

RECURSIVE NoUnderscores(_)
NoUnderscores(s) == IF s = "" THEN ""
                    ELSE (IF CharAt(s, 1) = "_" THEN "" ELSE CharAt(s, 1))
                         \o NoUnderscores(SubSeq(s, 2, Len(s)))

\* int(v) succeeds: optional surrounding blanks around decimal digits.
IntParses(s) == DigitPart(Strip(s))

IntOf(s) == [num |-> DigitsValue(NoUnderscores(Strip(s))), scale |-> 0]

\* Index of the first occurrence of character c in s, 0 when absent.
FindChar(s, c) == IF HasChar(s, c) THEN CHOOSE i \in 1..Len(s) :
                                          /\ CharAt(s, i) = c
                                          /\ \A j \in 1..(i - 1) : CharAt(s, j) # c
                  ELSE 0

\* Mantissa of a float literal: digits [. digits], at least one digit.
MantissaOk(m) ==
    LET d == FindChar(m, ".")
        ip == IF d = 0 THEN m ELSE SubSeq(m, 1, d - 1)
        fp == IF d = 0 THEN "" ELSE SubSeq(m, d + 1, Len(m))
    IN  /\ ip = "" \/ DigitPart(ip)
        /\ fp = "" \/ DigitPart(fp)
        /\ Len(ip) + Len(fp) > 0

\* float(v) succeeds: mantissa with an optional exponent e<digits>.
FloatParses(s) ==
    LET t == Lower(Strip(s))
        e == FindChar(t, "e")
        m == IF e = 0 THEN t ELSE SubSeq(t, 1, e - 1)
        x == IF e = 0 THEN "0" ELSE SubSeq(t, e + 1, Len(t))
    IN  MantissaOk(m) /\ DigitPart(x)

FloatOf(s) ==
    LET t == Lower(Strip(s))
        e == FindChar(t, "e")
        m == IF e = 0 THEN t ELSE SubSeq(t, 1, e - 1)
        x == IF e = 0 THEN 0 ELSE DigitsValue(NoUnderscores(SubSeq(t, e + 1, Len(t))))
        d == FindChar(m, ".")
        ip == NoUnderscores(IF d = 0 THEN m ELSE SubSeq(m, 1, d - 1))
        fp == NoUnderscores(IF d = 0 THEN "" ELSE SubSeq(m, d + 1, Len(m)))
        n == DigitsValue(ip \o fp)
        sc == Len(fp) - x
    IN  IF sc >= 0 THEN [num |-> n, scale |-> sc]
        ELSE [num |-> n * Pow10(0 - sc), scale |-> 0]

RECURSIVE Reduce(_)
Reduce(v) == IF v.scale > 0 /\ v.num % 10 = 0
             THEN Reduce([num |-> v.num \div 10, scale |-> v.scale - 1])
             ELSE v

RECURSIVE ZeroPad(_, _)
ZeroPad(s, w) == IF Len(s) >= w THEN s ELSE ZeroPad("0" \o s, w)

\* The text values().get returns for a cell holding a number.
NumberText(v) ==
    LET r == Reduce(v)
    IN  IF r.scale = 0 THEN IntText(r.num)
        ELSE IntText(r.num \div Pow10(r.scale)) \o "."
             \o ZeroPad(IntText(r.num % Pow10(r.scale)), r.scale)

\* str.replace("'", "")
RECURSIVE RemoveQuotes(_)
RemoveQuotes(s) == IF s = "" THEN ""
                   ELSE (IF CharAt(s, 1) = "'" THEN "" ELSE CharAt(s, 1))
                        \o RemoveQuotes(SubSeq(s, 2, Len(s)))

(***************************************************************************)
(* Sequence helpers.                                                       *)
(***************************************************************************)
\* The subsequence of q at the positions in keep, from position i on.
RECURSIVE FilterIdx(_, _, _)
FilterIdx(q, keep, i) ==
    IF i > Len(q) THEN <<>>
    ELSE (IF i \in keep THEN <<q[i]>> ELSE <<>>) \o FilterIdx(q, keep, i + 1)

Max(a, b) == IF a >= b THEN a ELSE b

RECURSIVE MaxLenOf(_)
MaxLenOf(rows) == IF rows = <<>> THEN 0 ELSE Max(Len(Head(rows)), MaxLenOf(Tail(rows)))

(***************************************************************************)
(* The destination sheet as the Sheets API shows it.                       *)
(***************************************************************************)
\* A value handed to the API with valueInputOption RAW: text or number.
TextVal(s) == [t |-> "s", s |-> s]

NumVal(v) == [t |-> "n", v |-> v]

\* What values().get returns later for a value written RAW.
CellText(c) == IF c.t = "n" THEN NumberText(c.v) ELSE c.s

RECURSIVE TrimRow(_)
TrimRow(r) == IF r # <<>> /\ r[Len(r)] = "" THEN TrimRow(SubSeq(r, 1, Len(r) - 1)) ELSE r

RECURSIVE TrimRows(_)
TrimRows(g) == IF g # <<>> /\ g[Len(g)] = <<>> THEN TrimRows(SubSeq(g, 1, Len(g) - 1)) ELSE g

\* values().get omits trailing blank cells of a row and trailing blank rows.
Normalize(g) == TrimRows([i \in 1..Len(g) |-> TrimRow(g[i])])

RowTexts(r) == [j \in 1..Len(r) |-> CellText(r[j])]

GridTexts(values) == [i \in 1..Len(values) |-> RowTexts(values[i])]

\* values().get(range = "<sheet>!A:A"): column A down to its last filled cell.
ReadColumnA(sh) == TrimRows([i \in 1..Len(sh) |->
                        IF Len(sh[i]) >= 1 /\ sh[i][1] # "" THEN <<sh[i][1]>> ELSE <<>>])

\* values().get(range = "<sheet>!A1")
ReadA1(sh) == IF sh # <<>> /\ Len(sh[1]) >= 1 /\ sh[1][1] # "" THEN <<<<sh[1][1]>>>> ELSE <<>>

\* values().get(range = "<sheet>!1:1")
ReadRow1(sh) == IF sh # <<>> /\ sh[1] # <<>> THEN <<sh[1]>> ELSE <<>>

\* values().update(range = "<sheet>!1:1", body = [headers]): overwrites the
\* leading cells of row 1.
UpdateRow1(sh, headers) ==
    LET old == IF sh = <<>> THEN <<>> ELSE sh[1]
        new == [j \in 1..Max(Len(old), Len(headers)) |->
                   IF j <= Len(headers) THEN headers[j] ELSE old[j]]
    IN  Normalize(IF sh = <<>> THEN <<new>> ELSE [sh EXCEPT ![1] = new])

\* values().append(range = "<sheet>!A<start_row>", body = values): the API
\* looks for the table at the range and writes the rows below the table's
\* last row, from column A.  The sheet is one table here (no blank row inside
\* it) and start_row lies in or directly below it.
SheetAppend(sh, start_row, values) == Normalize(sh \o GridTexts(values))

(***************************************************************************)
(* DataFrames: [cols, rows]; a cell is a number, a text or NaN.            *)
(***************************************************************************)
NaN == [t |-> "nan"]

N(n) == NumVal([num |-> n, scale |-> 0])

S(s) == TextVal(s)

EmptyDf == [cols |-> <<>>, rows |-> <<>>]

\* A test that finds no table empty.
DfEmpty_Never(df) == FALSE

\* DataFrame.empty
DfEmpty(df) == Len(df.cols) = 0 \/ Len(df.rows) = 0

\* str(v) of a cell value (astype(str))
PyStr(c) == IF c.t = "s" THEN c.s ELSE IF c.t = "n" THEN NumberText(c.v) ELSE "nan"

\* select_dtypes(include=['object']): a column holding some text.
IsObjectColumn(df, j) == \E i \in 1..Len(df.rows) : df.rows[i][j].t = "s"

\* rows of q without the rows equal to an earlier one (drop_duplicates()).
DropDuplicateRows(q) ==
    LET Keep(i) == \A k \in 1..(i - 1) : q[k] # q[i]
    IN  FilterIdx(q, {i \in 1..Len(q) : Keep(i)}, 1)

\* A mask that tests only for a missing value.
SecondColumnMask_NaOnly(r) == r[2].t # "nan"

\* The second-column mask of _clean_dataframe: TRUE for a row that stays.
SecondColumnMask(r) ==
    ~ \/ r[2].t = "nan"
      \/ Strip(PyStr(r[2])) = ""
      \/ Strip(PyStr(r[2])) = "nan"

\* df[col].astype(str).str.strip().str.replace("'", "") on the object columns
StripText(df) ==
    [cols |-> df.cols,
     rows |-> [i \in 1..Len(df.rows) |-> [j \in 1..Len(df.cols) |->
                  IF IsObjectColumn(df, j)
                  THEN S(RemoveQuotes(Strip(PyStr(df.rows[i][j]))))
                  ELSE df.rows[i][j]]]]

\* df = df[mask], for a table of two columns or more
SecondColumnFilter(df) ==
    IF Len(df.cols) >= 2
    THEN [cols |-> df.cols,
          rows |-> FilterIdx(df.rows, {i \in 1..Len(df.rows) : SecondColumnMask(df.rows[i])}, 1)]
    ELSE df

\* df.drop_duplicates()
DropExactDuplicates(df) == [cols |-> df.cols, rows |-> DropDuplicateRows(df.rows)]

_clean_dataframe(df) ==
    IF DfEmpty(df) THEN df
    ELSE DropExactDuplicates(SecondColumnFilter(StripText(df)))

(***************************************************************************)
(* The candidate files of the Drive folder: a name and the table the       *)
(* first successful parsing strategy yields for the file's bytes (EmptyDf  *)
(* when every strategy yields nothing).  A file is known by its position.  *)
(***************************************************************************)
Files == <<
    [name |-> "a.xlsx", raw |-> [cols |-> <<"Skucode", "PoNo">>,
                                  rows |-> << <<N(5), N(1)>> >>]],
    [name |-> "b.xlsx", raw |-> [cols |-> <<"Skucode", "PoNo">>,
                                  rows |-> << <<N(5), S("01")>>, <<N(7), NaN>> >>]],
    [name |-> "a.xlsx", raw |-> [cols |-> <<"Skucode", "PoNo", "Qty">>,
                                  rows |-> << <<N(6), N(2), N(9)>> >>]],
    [name |-> "c.xlsx ", raw |-> [cols |-> <<"Skucode", "PoNo">>,
                                   rows |-> << <<N(8), N(3)>> >>]],
    [name |-> "e.xlsx", raw |-> EmptyDf],
    [name |-> "d.xlsx", raw |-> [cols |-> <<"Skucode", "PoNo">>,
                                  rows |-> << <<N(5), N(1)>> >>]] >>

FileIds == 1..Len(Files)

\* The listings _get_excel_files_filtered can return: distinct files, in any
\* order, at most MaxListing of them.
RECURSIVE Listings(_)
Listings(n) ==
    IF n = 0 THEN {<<>>}
    ELSE LET prev == Listings(n - 1)
         IN  prev \cup UNION {{Append(q, f) : f \in FileIds \ {q[k] : k \in 1..Len(q)}} :
                                q \in {l \in prev : Len(l) = n - 1}}

(***************************************************************************)
(* Ledger and tracking column.                                             *)
(***************************************************************************)
\* header and 'source_file_name' in str(header).lower()
IsTrackingHeader(h) == h # "" /\ Contains(Lower(h), "source_file_name")

\* Index of the first tracking header of a header row, 0 when there is none.
TrackingIdx(headers) ==
    IF \E i \in 1..Len(headers) : IsTrackingHeader(headers[i])
    THEN CHOOSE i \in 1..Len(headers) :
            /\ IsTrackingHeader(headers[i])
            /\ \A k \in 1..(i - 1) : ~IsTrackingHeader(headers[k])
    ELSE 0

\* _get_source_file_names_from_sheet on the values read from A1:ZZ.
SourceFileNames(values) ==
    IF values = <<>> THEN {}
    ELSE LET c == TrackingIdx(values[1])
         IN  IF c = 0 THEN {}
             ELSE {Strip(values[i][c]) : i \in {k \in 2..Len(values) :
                                                  /\ Len(values[k]) >= c
                                                  /\ Strip(values[k][c]) # ""}}

\* _ensure_source_file_name_column: the sheet after the call.
EnsureColumn(sh) ==
    LET values == ReadRow1(sh)
    IN  IF values = <<>> THEN sh
        ELSE IF \E i \in 1..Len(values[1]) : IsTrackingHeader(values[1][i]) THEN sh
        ELSE UpdateRow1(sh, Append(values[1], "source_file_name"))

(***************************************************************************)
(* Reading, tagging and appending one file.                                *)
(***************************************************************************)
\* _read_excel_file_robust: the cleaned table of the first strategy that
\* yields a non-empty one, else an empty DataFrame.
_read_excel_file_robust(f) ==
    IF ~DfEmpty(Files[f].raw) THEN _clean_dataframe(Files[f].raw) ELSE EmptyDf

ColPos(cols, name) ==
    IF \E j \in 1..Len(cols) : cols[j] = name
    THEN CHOOSE j \in 1..Len(cols) : cols[j] = name /\ \A k \in 1..(j - 1) : cols[k] # name
    ELSE 0

\* df['source_file_name'] = name
TagSource(df, name) ==
    LET p == ColPos(df.cols, "source_file_name")
    IN  IF p = 0
        THEN [cols |-> Append(df.cols, "source_file_name"),
              rows |-> [i \in 1..Len(df.rows) |-> Append(df.rows[i], S(name))]]
        ELSE [cols |-> df.cols,
              rows |-> [i \in 1..Len(df.rows) |-> [df.rows[i] EXCEPT ![p] = S(name)]]]

\* process_value of _append_to_sheet
AppendValue(c) == IF c.t = "nan" THEN S("") ELSE c

\* The values _append_to_sheet sends: the header row when asked, the data rows.
AppendValues(df, append_headers) ==
    (IF append_headers THEN <<[j \in 1..Len(df.cols) |-> S(df.cols[j])]>> ELSE <<>>)
    \o [i \in 1..Len(df.rows) |-> [j \in 1..Len(df.cols) |-> AppendValue(df.rows[i][j])]]

\* start_row of _append_to_sheet
StartRow(sh) == Len(ReadColumnA(sh)) + 1

\* An append that writes the values from A1 on, over what is there.
AppendToSheet_AtTop(sh, df, append_headers) ==
    Normalize(GridTexts(AppendValues(df, append_headers)))

\* The sheet after a successful _append_to_sheet.
AppendToSheet(sh, df, append_headers) ==
    IF AppendValues(df, append_headers) = <<>> THEN sh
    ELSE SheetAppend(sh, StartRow(sh), AppendValues(df, append_headers))

(***************************************************************************)
(* _remove_duplicates_from_sheet, as a computation on the values read.     *)
(* Rows are followed by their index in `rows` (values[1:]), so that the    *)
(* row that survives can be told from the rows that equal it.              *)
(***************************************************************************)
\* row.extend([''] * (max_len - len(row)))
PadRows(values) ==
    LET max_len == MaxLenOf(values)
    IN  [i \in 1..Len(values) |-> [j \in 1..max_len |->
            IF j <= Len(values[i]) THEN values[i][j] ELSE ""]]

\* headers = [values[0][i] if values[0][i] else f"Column_{i+1}" ...]
CompactHeaders(values) ==
    LET p == PadRows(values)
    IN  [j \in 1..Len(p[1]) |-> IF p[1][j] # "" THEN p[1][j] ELSE "Column_" \o IntText(j)]

CompactRows(values) == Tail(PadRows(values))

\* "Skucode" in df.columns and "PoNo" in df.columns
HasKeyColumns(headers) == ColPos(headers, "Skucode") # 0 /\ ColPos(headers, "PoNo") # 0

KeyPair(headers, r) == <<r[ColPos(headers, "Skucode")], r[ColPos(headers, "PoNo")]>>

\* A pass that keeps every row.
DropDuplicateKeys_KeepAll(headers, rows) == [i \in 1..Len(rows) |-> i]

\* drop_duplicates(subset=["Skucode", "PoNo"], keep="first"): the indices kept.
DropDuplicateKeys(headers, rows) ==
    LET Keep(i) == \A k \in 1..(i - 1) : KeyPair(headers, rows[k]) # KeyPair(headers, rows[i])
    IN  FilterIdx([i \in 1..Len(rows) |-> i], {i \in 1..Len(rows) : Keep(i)}, 1)

RowBlank(r) == \A j \in 1..Len(r) : r[j] = ""

\* A pass that drops no row.
DropBlankRows_KeepAll(rows, idx) == idx

\* A pass that also drops a row whose first two cells repeat those of an
\* earlier row, whatever the header.
DropBlankRows_AndRepeats(rows, idx) ==
    LET Keep(k) == /\ ~RowBlank(rows[idx[k]])
                   /\ \A m \in 1..(k - 1) :
                         SubSeq(rows[idx[m]], 1, 2) # SubSeq(rows[idx[k]], 1, 2)
    IN  FilterIdx(idx, {k \in 1..Len(idx) : Keep(k)}, 1)

\* replace('', NA); dropna(how='all'): the indices of idx whose row has a value.
DropBlankRows(rows, idx) ==
    LET Keep(k) == ~RowBlank(rows[idx[k]])
    IN  FilterIdx(idx, {k \in 1..Len(idx) : Keep(k)}, 1)

\* dropna(how='all', axis=1): the columns with a value in some remaining row.
KeptColumns(headers, rows, idx) ==
    LET Keep(j) == \E k \in 1..Len(idx) : rows[idx[k]][j] # ""
    IN  FilterIdx([j \in 1..Len(headers) |-> j], {j \in 1..Len(headers) : Keep(j)}, 1)

\* sort_values(by="PoNo", ascending=True) with the default kind, quicksort,
\* which does not fix the order of rows with equal PoNo: every ascending
\* order of the indices in set I.
RECURSIVE SortOrders(_, _)
SortOrders(key, I) ==
    IF I = {} THEN {<<>>}
    ELSE UNION {{<<m>> \o t : t \in SortOrders(key, I \ {m})} :
                  m \in {i \in I : \A k \in I : ~StrLess(key[k], key[i])}}

\* process_value of _remove_duplicates_from_sheet
CompactValue(v) ==
    IF v = "" THEN S("")
    ELSE IF HasChar(v, ".") \/ HasChar(Lower(v), "e")
         THEN (IF FloatParses(v) THEN NumVal(FloatOf(v)) ELSE S(v))
         ELSE (IF IntParses(v) THEN NumVal(IntOf(v)) ELSE S(v))

SeqRange(q) == {q[k] : k \in 1..Len(q)}

\* The row orders the pass can write for the values read.
CompactOrders(values) ==
    LET headers == CompactHeaders(values)
        rows == CompactRows(values)
        idx == DropBlankRows(rows, IF HasKeyColumns(headers)
                                   THEN DropDuplicateKeys(headers, rows)
                                   ELSE [i \in 1..Len(rows) |-> i])
        cols == KeptColumns(headers, rows, idx)
        po == ColPos(headers, "PoNo")
    IN  IF po # 0 /\ po \in SeqRange(cols)
        THEN SortOrders([i \in 1..Len(rows) |-> rows[i][po]], SeqRange(idx))
        ELSE {idx}

\* The pass on the values read, writing the surviving rows in `order`:
\* the values sent to update() and the two counts it logs.
Compact(values, order) ==
    LET headers == CompactHeaders(values)
        rows == CompactRows(values)
        dedup == IF HasKeyColumns(headers) THEN DropDuplicateKeys(headers, rows)
                 ELSE [i \in 1..Len(rows) |-> i]
        idx == DropBlankRows(rows, dedup)
        cols == KeptColumns(headers, rows, idx)
    IN  [values |-> <<[c \in 1..Len(cols) |-> S(headers[cols[c]])]>>
                    \o [k \in 1..Len(order) |-> [c \in 1..Len(cols) |->
                          CompactValue(rows[order[k]][cols[c]])]],
         removed_dup |-> Len(rows) - Len(dedup),
         removed_clean |-> Len(dedup) - Len(idx),
         order |-> order,
         cols |-> cols]

(***************************************************************************)
(* State.                                                                  *)
(***************************************************************************)
VARIABLES
    sheet,                   \* the destination sheet, as values().get shows it
    pc,                      \* where run_complete_workflow stands
    run,                     \* number of runs started
    faults,                  \* number of API calls that raised so far
    execution_stats,         \* self.execution_stats (the Drive-to-Sheets part)
    excel_files,             \* the listing of this run (file ids)
    processed_source_files,  \* the ledger read at the start of the batch
    files_to_process,        \* the candidates that passed the ledger gate
    i,                       \* position of the loop in files_to_process
    is_first_file,
    sheet_has_headers,
    processed_count,
    failed_count,
    pending,                 \* the compaction result computed, not yet written
    appends,                 \* history: the successful appends of this run
    fetched,                 \* history: the files whose bytes were read this run
    merged,                  \* history: the files merged by earlier runs
    cmp,                     \* history: the last compaction pass
    trace,                   \* history: what happened to each file in this run
    excel_result,            \* what process_excel_workflow returned
    call,                    \* a function called on its own: name and arguments
    frame                    \* the locals of that call and what it returned

vars == <<sheet, pc, run, faults, execution_stats, excel_files, processed_source_files,
          files_to_process, i, is_first_file, sheet_has_headers, processed_count,
          failed_count, pending, appends, fetched, merged, cmp, trace, excel_result,
          call, frame>>

\* The variables of the workflow, and those of a function called on its own.
workflowVars == <<sheet, pc, run, faults, execution_stats, excel_files,
                  processed_source_files, files_to_process, i, is_first_file,
                  sheet_has_headers, processed_count, failed_count, pending, appends,
                  fetched, merged, cmp, trace, excel_result>>

unitVars == <<call, frame>>

NoCall == [fn |-> "none"]

NoFrame == [pc |-> "none"]

batchVars == <<excel_files, processed_source_files, files_to_process, i, is_first_file,
               sheet_has_headers, processed_count, failed_count>>

NoStats == [files_found |-> 0, files_processed |-> 0, files_skipped |-> 0,
            files_failed |-> 0, duplicates_removed |-> 0, errors |-> <<>>]

NoPending == [values |-> <<>>, removed_dup |-> 0, removed_clean |-> 0,
              order |-> <<>>, cols |-> <<>>]

NoCmp == [stage |-> "none", pre |-> <<>>, plan |-> NoPending]

NoResult == [returned |-> FALSE, success |-> FALSE, processed |-> 0]

\* An entry of the history: op happened to file f (0: to the batch).
Ev(op, f) == [op |-> op, file |-> f]

\* The destinations a first run can find: an empty sheet, a sheet that holds
\* a header row with or without the tracking column.
InitSheets == { <<>>,
                << <<"Skucode", "PoNo", "source_file_name">> >>,
                << <<"Skucode", "PoNo">> >> }

Init ==
    /\ sheet \in InitSheets
    /\ pc = "idle"
    /\ run = 0
    /\ faults = 0
    /\ execution_stats = NoStats
    /\ excel_files = <<>>
    /\ processed_source_files = {}
    /\ files_to_process = <<>>
    /\ i = 1
    /\ is_first_file = TRUE
    /\ sheet_has_headers = FALSE
    /\ processed_count = 0
    /\ failed_count = 0
    /\ pending = NoPending
    /\ appends = <<>>
    /\ fetched = {}
    /\ merged = {}
    /\ cmp = NoCmp
    /\ trace = <<>>
    /\ excel_result = NoResult
    /\ call = NoCall
    /\ frame = NoFrame

\* An API call raises (HttpError, timeout): at most MaxFaults times.
Raises == faults < MaxFaults /\ faults' = faults + 1

NoRaise == faults' = faults

(***************************************************************************)
(* run_complete_workflow and process_excel_workflow, step by step.         *)
(***************************************************************************)
\* run_complete_workflow resets the statistics and starts the batch.
StartRun ==
    /\ pc = "idle"
    /\ run < MaxRuns
    /\ run' = run + 1
    /\ execution_stats' = NoStats
    /\ pc' = "list"
    /\ appends' = <<>>
    /\ fetched' = {}
    /\ cmp' = NoCmp
    /\ trace' = <<>>
    /\ excel_result' = NoResult
    /\ UNCHANGED <<sheet, faults, batchVars, pending, merged>>
    /\ UNCHANGED unitVars

\* _get_excel_files_filtered and the early return on an empty listing.
ListFiles ==
    /\ pc = "list"
    /\ \E l \in Listings(MaxListing) :
          /\ excel_files' = l
          /\ execution_stats' = [execution_stats EXCEPT !.files_found = Len(l)]
          /\ pc' = IF l = <<>> THEN "done" ELSE "ensure"
          /\ trace' = [k \in 1..Len(l) |-> Ev("discovered", l[k])]
    /\ UNCHANGED <<sheet, run, faults, processed_source_files, files_to_process, i,
                   is_first_file, sheet_has_headers, processed_count, failed_count,
                   pending, appends, fetched, merged, cmp, excel_result>>
    /\ UNCHANGED unitVars

\* self._ensure_source_file_name_column(); its result is not looked at.
EnsureSourceColumn ==
    /\ pc = "ensure"
    /\ \/ NoRaise /\ sheet' = EnsureColumn(sheet)
       \/ Raises /\ sheet' = sheet
    /\ pc' = "ledger"
    /\ UNCHANGED <<run, execution_stats, batchVars, pending, appends, fetched, merged, cmp,
                   trace, excel_result>>
    /\ UNCHANGED unitVars

\* processed_source_files = self._get_source_file_names_from_sheet()
GetSourceFileNames ==
    /\ pc = "ledger"
    /\ \/ /\ NoRaise
          /\ processed_source_files' = SourceFileNames(sheet)
          /\ trace' = Append(trace, Ev("ledger_read", 0))
       \/ /\ Raises
          /\ processed_source_files' = {}
          /\ trace' = Append(trace, Ev("ledger_failed", 0))
    /\ pc' = "filter"
    /\ UNCHANGED <<sheet, run, execution_stats, excel_files, files_to_process, i,
                   is_first_file, sheet_has_headers, processed_count, failed_count,
                   pending, appends, fetched, merged, cmp, excel_result>>
    /\ UNCHANGED unitVars

\* A gate that hands every candidate it lets through to the loop twice.
LedgerGate_Twice(listing, ledger) ==
    LET kept == FilterIdx(listing, {k \in 1..Len(listing) :
                                      Files[listing[k]].name \notin ledger}, 1)
    IN  kept \o kept

\* A gate that lets every candidate through.
LedgerGate_NoSkip(listing, ledger) == listing

\* A gate that hands the candidates to the loop last first.
LedgerGate_Reversed(listing, ledger) ==
    LET kept == FilterIdx(listing, {k \in 1..Len(listing) :
                                      Files[listing[k]].name \notin ledger}, 1)
    IN  [k \in 1..Len(kept) |-> kept[Len(kept) + 1 - k]]

\* The candidates of the listing that are not in the ledger, in order.
LedgerGate(listing, ledger) ==
    LET Keep(k) == Files[listing[k]].name \notin ledger
    IN  FilterIdx(listing, {k \in 1..Len(listing) : Keep(k)}, 1)

\* The filter loop, the initialisation of the batch and _check_sheet_headers.
FilterFiles ==
    /\ pc = "filter"
    /\ files_to_process' = LedgerGate(excel_files, processed_source_files)
    /\ execution_stats' = [execution_stats EXCEPT !.files_skipped =
            @ + Len(excel_files) - Len(LedgerGate(excel_files, processed_source_files))]
    /\ processed_count' = 0
    /\ failed_count' = 0
    /\ is_first_file' = TRUE
    /\ i' = 1
    /\ pc' = "headers"
    /\ trace' = trace \o [k \in 1..Len(excel_files) |->
                    Ev(IF Files[excel_files[k]].name \in processed_source_files
                       THEN "skip" ELSE "proceed", excel_files[k])]
    /\ UNCHANGED <<sheet, run, faults, excel_files, processed_source_files,
                   sheet_has_headers, pending, appends, fetched, merged, cmp, excel_result>>
    /\ UNCHANGED unitVars

\* _check_sheet_headers: bool(values of A1), False when the call raises.
CheckSheetHeaders ==
    /\ pc = "headers"
    /\ \/ NoRaise /\ sheet_has_headers' = (ReadA1(sheet) # <<>>)
       \/ Raises /\ sheet_has_headers' = FALSE
    /\ pc' = "loop"
    /\ UNCHANGED <<sheet, run, execution_stats, excel_files, processed_source_files,
                   files_to_process, i, is_first_file, processed_count, failed_count,
                   pending, appends, fetched, merged, cmp, trace, excel_result>>
    /\ UNCHANGED unitVars

\* A handler that records nothing.
RecordFailure_Silent(stats, name) == stats

\* The except clause of the loop: the message goes to the run's error list.
RecordFailure(stats, name) ==
    [stats EXCEPT !.errors = Append(@, "Failed to process Excel file " \o name)]

\* A batch that always calls the compaction pass.
NeedsCompaction_Always(count) == TRUE

\* if processed_count > 0: the compaction pass is called.
NeedsCompaction(count) == count > 0

\* One turn of the loop over files_to_process: read and clean the file, tag
\* it and append it.
ProcessFile ==
    /\ pc = "loop"
    /\ i <= Len(files_to_process)
    /\ LET f == files_to_process[i]
           df == _read_excel_file_robust(f)
           tagged == TagSource(df, Files[f].name)
           append_headers == is_first_file /\ ~sheet_has_headers
       IN  /\ fetched' = fetched \cup {f}
           /\ \/ \* if df.empty: failed_count += 1; continue.  The reader returns an
                 \* empty DataFrame for a file without data and when the download raises.
                 /\ \/ DfEmpty(df) /\ NoRaise
                    \/ Raises
                 /\ failed_count' = failed_count + 1
                 /\ trace' = trace \o <<Ev("extract", f), Ev("failed_empty", f)>>
                 /\ UNCHANGED <<sheet, execution_stats, is_first_file, sheet_has_headers,
                                processed_count, appends>>
              \/ \* the append succeeds
                 /\ ~DfEmpty(df)
                 /\ NoRaise
                 /\ sheet' = AppendToSheet(sheet, tagged, append_headers)
                 /\ processed_count' = processed_count + 1
                 /\ is_first_file' = FALSE
                 /\ sheet_has_headers' = TRUE
                 /\ appends' = Append(appends, [file |-> f, headers |-> append_headers,
                                                before |-> sheet])
                 /\ trace' = trace \o <<Ev("extract", f), Ev("clean", f), Ev("merged", f)>>
                 /\ UNCHANGED <<execution_stats, failed_count>>
              \/ \* _append_to_sheet raises: caught at the file boundary
                 /\ ~DfEmpty(df)
                 /\ Raises
                 /\ execution_stats' = RecordFailure(execution_stats, Files[f].name)
                 /\ failed_count' = failed_count + 1
                 /\ trace' = trace \o <<Ev("extract", f), Ev("clean", f),
                                         Ev("failed_append", f)>>
                 /\ UNCHANGED <<sheet, is_first_file, sheet_has_headers, processed_count,
                                appends>>
    /\ i' = i + 1
    /\ UNCHANGED <<pc, run, excel_files, processed_source_files, files_to_process,
                   pending, merged, cmp, excel_result>>
    /\ UNCHANGED unitVars

\* A store that forgets the files that failed.
StoreCounts_NoFailed(stats, processed, failed) ==
    [stats EXCEPT !.files_processed = processed]

\* self.execution_stats['files_processed'] = processed_count, and files_failed.
StoreCounts(stats, processed, failed) ==
    [stats EXCEPT !.files_processed = processed, !.files_failed = failed]

\* After the loop: the counts are stored; compaction follows a successful merge.
LoopEnd ==
    /\ pc = "loop"
    /\ i > Len(files_to_process)
    /\ execution_stats' = StoreCounts(execution_stats, processed_count, failed_count)
    /\ pc' = IF NeedsCompaction(processed_count) THEN "compact" ELSE "done"
    /\ UNCHANGED <<sheet, run, faults, batchVars, pending, appends, fetched, merged, cmp,
                   trace, excel_result>>
    /\ UNCHANGED unitVars

\* _remove_duplicates_from_sheet, up to the values it is about to write.
CompactRead ==
    /\ pc = "compact"
    /\ \/ \* the read raises, or the sheet is empty: return 0
          /\ \/ Raises /\ cmp' = [stage |-> "failed", pre |-> sheet, plan |-> NoPending]
             \/ /\ NoRaise
                /\ sheet = <<>>
                /\ cmp' = [stage |-> "empty", pre |-> sheet, plan |-> NoPending]
          /\ pending' = NoPending
          /\ execution_stats' = [execution_stats EXCEPT !.duplicates_removed = 0]
          /\ pc' = "done"
       \/ /\ NoRaise
          /\ sheet # <<>>
          /\ \E order \in CompactOrders(sheet) :
                /\ pending' = Compact(sheet, order)
                /\ cmp' = [stage |-> "computed", pre |-> sheet, plan |-> Compact(sheet, order)]
          /\ pc' = "clear"
          /\ UNCHANGED execution_stats
    /\ trace' = Append(trace, Ev("compact", 0))
    /\ UNCHANGED <<sheet, run, batchVars, appends, fetched, merged, excel_result>>
    /\ UNCHANGED unitVars

\* values().clear(range = sheet_name)
CompactClear ==
    /\ pc = "clear"
    /\ \/ /\ NoRaise
          /\ sheet' = <<>>
          /\ pc' = "update"
          /\ cmp' = [cmp EXCEPT !.stage = "cleared"]
          /\ UNCHANGED execution_stats
       \/ /\ Raises
          /\ sheet' = sheet
          /\ pc' = "done"
          /\ cmp' = [cmp EXCEPT !.stage = "failed"]
          /\ execution_stats' = [execution_stats EXCEPT !.duplicates_removed = 0]
    /\ UNCHANGED <<run, batchVars, pending, appends, fetched, merged, trace, excel_result>>
    /\ UNCHANGED unitVars

\* values().update(range = A1, body = values) and the return of removed_dup.
CompactUpdate ==
    /\ pc = "update"
    /\ \/ /\ NoRaise
          /\ sheet' = Normalize(GridTexts(pending.values))
          /\ cmp' = [cmp EXCEPT !.stage = "written"]
          /\ execution_stats' = [execution_stats EXCEPT
                                    !.duplicates_removed = pending.removed_dup]
       \/ /\ Raises
          /\ sheet' = sheet
          /\ cmp' = [cmp EXCEPT !.stage = "failed"]
          /\ execution_stats' = [execution_stats EXCEPT !.duplicates_removed = 0]
    /\ pc' = "done"
    /\ UNCHANGED <<run, batchVars, pending, appends, fetched, merged, trace, excel_result>>
    /\ UNCHANGED unitVars

\* process_excel_workflow returns; the locals of the batch are gone.
FinishRun ==
    /\ pc = "done"
    /\ pc' = "idle"
    /\ merged' = merged \cup {appends[k].file : k \in 1..Len(appends)}
    /\ excel_files' = <<>>
    /\ processed_source_files' = {}
    /\ files_to_process' = <<>>
    /\ i' = 1
    /\ is_first_file' = TRUE
    /\ sheet_has_headers' = FALSE
    /\ processed_count' = 0
    /\ failed_count' = 0
    /\ pending' = NoPending
    /\ excel_result' = [returned |-> TRUE, success |-> TRUE, processed |-> processed_count]
    /\ UNCHANGED <<sheet, run, faults, execution_stats, appends, fetched, cmp, trace>>
    /\ UNCHANGED unitVars

Next ==
    \/ StartRun
    \/ ListFiles
    \/ EnsureSourceColumn
    \/ GetSourceFileNames
    \/ FilterFiles
    \/ CheckSheetHeaders
    \/ ProcessFile
    \/ LoopEnd
    \/ CompactRead
    \/ CompactClear
    \/ CompactUpdate
    \/ FinishRun

Spec == Init /\ [][Next]_vars

\* The same program when no API call raises.
NextNoFault ==
    \/ StartRun /\ NoRaise
    \/ ListFiles /\ NoRaise
    \/ EnsureSourceColumn /\ NoRaise
    \/ GetSourceFileNames /\ NoRaise
    \/ FilterFiles /\ NoRaise
    \/ CheckSheetHeaders /\ NoRaise
    \/ ProcessFile /\ NoRaise
    \/ LoopEnd /\ NoRaise
    \/ CompactRead /\ NoRaise
    \/ CompactClear /\ NoRaise
    \/ CompactUpdate /\ NoRaise
    \/ FinishRun /\ NoRaise

SpecNoFault == Init /\ [][NextNoFault]_vars

(***************************************************************************)
(* The compaction pass on its own, applied to any destination content: a   *)
(* header row and 1 to MaxCompactRows rows below it, among them an empty   *)
(* row, a record without key values, records whose keys differ only in    *)
(* the way the number is written and records with the same PoNo.           *)
(***************************************************************************)
CompactHeaderSet == { <<"Skucode", "PoNo", "Qty", "source_file_name">>,
                      <<"Skucode", "Item", "Qty", "source_file_name">>,
                      <<"Item", "PoNo", "Qty", "source_file_name">> }

CompactRowSet == { <<>>,
                   <<"5", "1", "", "a.xlsx">>,
                   <<"5", "01", "", "b.xlsx">>,
                   <<"", "", "9", "c.xlsx">>,
                   <<"5", "1", "7", "d.xlsx">>,
                   <<"7", "1", "", "e.xlsx">>,
                   <<"6", "10">> }

RECURSIVE RowSeqs(_)
RowSeqs(n) ==
    IF n = 0 THEN {<<>>}
    ELSE RowSeqs(n - 1) \cup {Append(q, r) : q \in {l \in RowSeqs(n - 1) : Len(l) = n - 1},
                                              r \in CompactRowSet}

\* The pass is called after a successful append, so at least one row lies
\* below the header.
CompactSheets == {<<h>> \o q : h \in CompactHeaderSet,
                               q \in {l \in RowSeqs(MaxCompactRows) :
                                         l # <<>> /\ Normalize(l) = l}}

InitCompact ==
    /\ sheet \in CompactSheets
    /\ pc = "compact"
    /\ run = 1
    /\ faults = 0
    /\ execution_stats = NoStats
    /\ excel_files = <<>>
    /\ processed_source_files = {}
    /\ files_to_process = <<>>
    /\ i = 1
    /\ is_first_file = FALSE
    /\ sheet_has_headers = TRUE
    /\ processed_count = 1
    /\ failed_count = 0
    /\ pending = NoPending
    /\ appends = <<>>
    /\ fetched = {}
    /\ merged = {}
    /\ cmp = NoCmp
    /\ trace = <<>>
    /\ excel_result = NoResult
    /\ call = NoCall
    /\ frame = NoFrame

NextCompact ==
    \/ CompactRead
    \/ CompactClear
    \/ CompactUpdate

SpecCompact == InitCompact /\ [][NextCompact]_vars

(***************************************************************************)
(* Vocabulary of the properties.                                           *)
(***************************************************************************)
NameOf(f) == Files[f].name

\* The ledger gate has been passed in this run.
AfterGate == pc \in {"headers", "loop", "compact", "clear", "update", "done"}

Skipped(k) == excel_files[k] \notin SeqRange(files_to_process)

\* The rows _append_to_sheet writes for file f, as the sheet shows them.
FileRows(f) == GridTexts(AppendValues(TagSource(_read_excel_file_robust(f), NameOf(f)), FALSE))

\* A row after the pass has re-serialised it, without trailing blanks.
Canon(r) == TrimRow(RowTexts([j \in 1..Len(r) |-> CompactValue(r[j])]))

CountRows(sh, r) == Cardinality({k \in 1..Len(sh) : Canon(sh[k]) = Canon(r)})

\* The values of the tracking column below the header row.
TrackingValues(sh) ==
    IF sh = <<>> \/ TrackingIdx(sh[1]) = 0 THEN {}
    ELSE {sh[k][TrackingIdx(sh[1])] : k \in {n \in 2..Len(sh) : Len(sh[n]) >= TrackingIdx(sh[1])}}

\* Candidate k of the listing has its name in the ledger read by this run.
InLedger(k) == NameOf(excel_files[k]) \in processed_source_files

\* The header and the rows the compaction pass read.
PreHeaders == CompactHeaders(cmp.pre)

PreRows == CompactRows(cmp.pre)

\* The rows read (by index) that carry the key pair of row a.
SamePair(a) == {b \in 1..Len(PreRows) :
                  KeyPair(PreHeaders, PreRows[b]) = KeyPair(PreHeaders, PreRows[a])}

\* Cell j of a row as read, blank when the row is shorter.
Cell(r, j) == IF j >= 1 /\ j <= Len(r) THEN r[j] ELSE ""

SheetKeyPair(sh, k) == <<Cell(sh[k], ColPos(sh[1], "Skucode")), Cell(sh[k], ColPos(sh[1], "PoNo"))>>

\* A row of column names: no data cell of the model's files is a column name.
IsHeaderRow(r) == \E j \in 1..Len(r) : r[j] \in {"Skucode", "PoNo", "Qty", "source_file_name"}

HeaderRowCount(sh) == Cardinality({k \in 1..Len(sh) : IsHeaderRow(sh[k])})

(***************************************************************************)
(* C1  Idempotence across runs: a file whose name an earlier run merged    *)
(* is skipped by the ledger gate of a later run that lists the name again, *)
(* and at the end of that run each of its rows is in the sheet once.       *)
(***************************************************************************)
C1_IdempotentAcrossRuns ==
    \A k \in 1..Len(excel_files) : \A g \in merged :
        NameOf(g) = NameOf(excel_files[k]) =>
            /\ AfterGate => Skipped(k)
            /\ pc = "done" => \A n \in 1..Len(FileRows(g)) : CountRows(sheet, FileRows(g)[n]) = 1

(***************************************************************************)
(* C2  Within one batch at most one append is made per file name.          *)
(***************************************************************************)
C2_OneAppendPerName ==
    \A a, b \in 1..Len(appends) :
        a # b => NameOf(appends[a].file) # NameOf(appends[b].file)

(***************************************************************************)
(* C3  Ledger gate: once the gate has been passed, a candidate is skipped  *)
(* if and only if its name equals a non-blank value of the sheet's         *)
(* tracking column; the others are the files to process.                   *)
(***************************************************************************)
C3_LedgerGate ==
    pc = "headers" =>
        \A k \in 1..Len(excel_files) :
            Skipped(k) <=> NameOf(excel_files[k]) \in (TrackingValues(sheet) \ {""})

(***************************************************************************)
(* C4  A candidate found in the ledger is counted as skipped once, is      *)
(* never read and gets no append; a batch whose candidates are all in the  *)
(* ledger makes no append and runs no compaction.                          *)
(***************************************************************************)
C4_SkippedUntouched ==
    AfterGate =>
        /\ execution_stats.files_skipped
              = Cardinality({k \in 1..Len(excel_files) : InLedger(k)})
        /\ \A k \in 1..Len(excel_files) : InLedger(k) =>
              /\ excel_files[k] \notin fetched
              /\ \A a \in 1..Len(appends) : appends[a].file # excel_files[k]
        /\ (\A k \in 1..Len(excel_files) : InLedger(k)) =>
              appends = <<>> /\ fetched = {} /\ cmp.stage = "none"

\* Witness of C4: a batch that skipped one candidate and merged another has ended.
C4_Witness ==
    /\ pc = "done"
    /\ \E k \in 1..Len(excel_files) : InLedger(k)
    /\ Len(appends) > 0

(***************************************************************************)
(* C5  Compaction determinism: when both key columns exist, for every      *)
(* (Skucode, PoNo) pair of a row that is not entirely blank exactly one    *)
(* row with that pair is written by the pass, and it is the first row with *)
(* the pair in the order read.                                             *)
(***************************************************************************)
C5_FirstOfEachPairSurvives ==
    (cmp.stage \in {"computed", "cleared", "written"} /\ HasKeyColumns(PreHeaders)) =>
        /\ Cardinality(SeqRange(cmp.plan.order)) = Len(cmp.plan.order)
        /\ \A a \in 1..Len(PreRows) : ~RowBlank(PreRows[a]) =>
              /\ Cardinality(SamePair(a) \cap SeqRange(cmp.plan.order)) = 1
              /\ \A k \in SamePair(a) \cap SeqRange(cmp.plan.order) :
                    \A b \in SamePair(a) : k <= b

(***************************************************************************)
(* C6  After a pass that completed, the sheet as read back holds no two    *)
(* records with the same (Skucode, PoNo) pair.                             *)
(***************************************************************************)
C6_NoDuplicateKeysWritten ==
    (cmp.stage = "written" /\ sheet # <<>> /\ HasKeyColumns(sheet[1])) =>
        \A a, b \in 2..Len(sheet) : a # b => SheetKeyPair(sheet, a) # SheetKeyPair(sheet, b)

(***************************************************************************)
(* C7  The pass replaces the sheet atomically: once it has returned, by    *)
(* completing or by a failed call, the sheet holds the content read by the *)
(* pass or the rewritten table.  (The moment between clear and update of a *)
(* pass that goes on is not held against the claim.)                       *)
(***************************************************************************)
C7_AtomicReplace ==
    cmp.stage \in {"failed", "written"} =>
        \/ sheet = cmp.pre
        \/ sheet = Normalize(GridTexts(cmp.plan.values))

(***************************************************************************)
(* C8  A sheet that is not empty has exactly one header row.               *)
(***************************************************************************)
C8_OneHeaderRow == sheet # <<>> => HeaderRowCount(sheet) = 1

(***************************************************************************)
(* C9  A header row is sent only with the first append of the batch and    *)
(* only when the sheet holds no header at that time.                       *)
(***************************************************************************)
C9_HeaderOnlyWhenMissing ==
    \A k \in 1..Len(appends) :
        appends[k].headers => k = 1 /\ HeaderRowCount(appends[k].before) = 0

(***************************************************************************)
(* C10 After a successful append into a sheet whose header holds the       *)
(* tracking column, each appended row holds the file's name in that        *)
(* column.  Checked while the batch loop runs, when the rows below         *)
(* `before` are the rows appended since.                                   *)
(***************************************************************************)
C10_TrackingCellHoldsName ==
    pc = "loop" =>
        \A k \in 1..Len(appends) :
            LET before == appends[k].before
                n == Len(FileRows(appends[k].file))
            IN  (before # <<>> /\ TrackingIdx(before[1]) # 0 /\ ~appends[k].headers) =>
                    \A r \in (Len(before) + 1)..(Len(before) + n) :
                        Cell(sheet[r], TrackingIdx(before[1])) = NameOf(appends[k].file)

(***************************************************************************)
(* Vocabulary of the properties about the header, the history of a run and *)
(* the statistics.                                                         *)
(***************************************************************************)
\* The header row of the sheet holds a tracking column.
HasTracking(sh) == sh # <<>> /\ TrackingIdx(sh[1]) # 0

\* The sheet an operation started from: the compaction pass, which clears
\* and rewrites in two calls, started from the content it read.
OperationStart == IF pc = "update" THEN cmp.pre ELSE sheet

\* The sheet after the k-th successful append of the batch (while the loop
\* runs or has just ended).
AfterAppend(k) == IF k < Len(appends) THEN appends[k + 1].before ELSE sheet

\* The values the k-th successful append sent, as the sheet shows them.
AppendedRows(k) ==
    Normalize(GridTexts(AppendValues(
        TagSource(_read_excel_file_robust(appends[k].file), NameOf(appends[k].file)),
        appends[k].headers)))

\* Something with this op is in the history of the run.
Happened(op) == \E n \in 1..Len(trace) : trace[n].op = op

\* The positions of the history at which op happened to file f.
When(op, f) == {n \in 1..Len(trace) : trace[n] = Ev(op, f)}

\* The number of entries of the history with this op.
CountOp(op) == Cardinality({n \in 1..Len(trace) : trace[n].op = op})

\* The ops that end the handling of a file.
TerminalOps == {"skip", "merged", "failed_empty", "failed_append"}

\* The positions of the history at which the handling of file f ended.
Terminals(f) == {n \in 1..Len(trace) : trace[n].file = f /\ trace[n].op \in TerminalOps}

\* The loop over files_to_process has ended.
LoopOver == pc \in {"compact", "clear", "update", "done"}

\* Every strategy yields an empty table for file f.
Exhausted(f) == Len(_read_excel_file_robust(f).rows) = 0

\* Every position at which a happened to file f lies before every position
\* at which b happened to it.
Before(a, b, f) == \A n \in When(a, f) : \A m \in When(b, f) : n < m

\* The positions at which the ledger gate decided on file f.
LedgerChecks(f) == When("skip", f) \cup When("proceed", f)

\* The rows read by the pass (by index) that repeat the key pair of an
\* earlier row.
RepeatingRows == {b \in 1..Len(PreRows) : \E a \in SamePair(b) : a < b}

\* The number of records a pass removed for repeating an earlier key pair:
\* none when the pass did not complete or the key columns are missing.
RemovedForRepeating ==
    IF cmp.stage = "written" /\ HasKeyColumns(PreHeaders)
    THEN Cardinality(RepeatingRows) ELSE 0

(***************************************************************************)
(* C11 The tracking column is never removed: when the header holds it      *)
(* before an operation (ensure-column, append, compaction pass), the       *)
(* header holds it after the operation.  The state between the two calls   *)
(* of a pass is not looked at.                                             *)
(***************************************************************************)
C11_TrackingColumnStays ==
    [][pc' # "update" => (HasTracking(OperationStart) => HasTracking(sheet'))]_vars

(***************************************************************************)
(* C12 Before compaction the sheet only grows: a successful append of a    *)
(* table with n data rows and h header rows leaves the rows that were      *)
(* there unchanged and puts the n + h new rows directly below them.        *)
(***************************************************************************)
C12_AppendOnlyGrows ==
    pc \in {"loop", "compact"} =>
        \A k \in 1..Len(appends) :
            LET before == appends[k].before
                after == AfterAppend(k)
                n == Len(_read_excel_file_robust(appends[k].file).rows)
                h == IF appends[k].headers THEN 1 ELSE 0
            IN  /\ Len(after) = Len(before) + n + h
                /\ SubSeq(after, 1, Len(before)) = before
                /\ SubSeq(after, Len(before) + 1, Len(after)) = AppendedRows(k)

\* Witness of C12: an append with the header row (h = 1) into an empty sheet
\* was followed by an append of data rows only.
C12_Witness ==
    /\ pc = "loop"
    /\ Len(appends) = 2
    /\ appends[1].headers
    /\ appends[1].before = <<>>

(***************************************************************************)
(* C13 When the destination cannot be read for the ledger, the batch is    *)
(* aborted: no candidate is extracted or appended in that batch.           *)
(***************************************************************************)
C13_LedgerFailureAborts ==
    Happened("ledger_failed") =>
        /\ fetched = {}
        /\ appends = <<>>
        /\ ~Happened("extract")

(***************************************************************************)
(* C14 A failed append aborts only its file: the file is counted as failed *)
(* and a message naming it is in the error list, it is not counted as      *)
(* processed and the batch state is not moved on for it, and every later   *)
(* file of the batch is handled.                                           *)
(***************************************************************************)
C14_AppendFailureIsLocal ==
    /\ \A n \in 1..Len(trace) : trace[n].op = "failed_append" =>
          /\ \E e \in 1..Len(execution_stats.errors) :
                execution_stats.errors[e]
                    = "Failed to process Excel file " \o NameOf(trace[n].file)
          /\ \A a \in 1..Len(appends) : appends[a].file # trace[n].file
    /\ Len(execution_stats.errors) = CountOp("failed_append")
    /\ pc = "loop" =>
          /\ failed_count = CountOp("failed_append") + CountOp("failed_empty")
          /\ processed_count = Len(appends)
          /\ is_first_file = (appends = <<>>)
    /\ LoopOver =>
          \A k \in 1..Len(files_to_process) :
              Cardinality(Terminals(files_to_process[k])) = 1

\* Witness of C14: the append of a file failed and a later file of the batch
\* was merged.
C14_Witness ==
    /\ pc = "done"
    /\ \E n, m \in 1..Len(trace) :
          n < m /\ trace[n].op = "failed_append" /\ trace[m].op = "merged"

(***************************************************************************)
(* C15 When every strategy yields an empty table for a file, the file is   *)
(* counted as failed, nothing is appended for it, and the batch goes on    *)
(* with the next file.                                                     *)
(***************************************************************************)
C15_ExhaustedFileFails ==
    /\ \A n \in 1..Len(trace) :
          (trace[n].op = "extract" /\ Exhausted(trace[n].file)) =>
              /\ n < Len(trace)
              /\ trace[n + 1] = Ev("failed_empty", trace[n].file)
              /\ \A a \in 1..Len(appends) : appends[a].file # trace[n].file
    /\ (pc = "done" /\ excel_files # <<>>) =>
          execution_stats.files_failed = CountOp("failed_empty") + CountOp("failed_append")
    /\ LoopOver =>
          \A k \in 1..Len(files_to_process) : When("extract", files_to_process[k]) # {}

\* Witness of C15: a file without a table failed and a later file of the
\* batch was merged.
C15_Witness ==
    /\ pc = "done"
    /\ \E n, m \in 1..Len(trace) :
          /\ n < m
          /\ trace[n].op = "failed_empty"
          /\ Exhausted(trace[n].file)
          /\ trace[m].op = "merged"

(***************************************************************************)
(* C16 No failure is silent: at the end of a run the error list holds a    *)
(* message for each file counted in files_failed, so it is not empty when  *)
(* files_failed is greater than zero.                                      *)
(***************************************************************************)
C16_NoSilentFailure ==
    pc = "done" =>
        /\ Len(execution_stats.errors) >= execution_stats.files_failed
        /\ execution_stats.files_failed > 0 => execution_stats.errors # <<>>

(***************************************************************************)
(* C17 A failure of a call of the compaction pass (read, clear or rewrite) *)
(* reaches the batch level: when the workflow has returned, the error list *)
(* holds a message beyond those of the failed files, or the result is not  *)
(* a success.                                                              *)
(***************************************************************************)
C17_CompactionFailureReported ==
    (excel_result.returned /\ cmp.stage = "failed") =>
        \/ Len(execution_stats.errors) > CountOp("failed_append")
        \/ ~excel_result.success

(***************************************************************************)
(* C18 The compaction pass runs once in a batch with a successful merge,   *)
(* after every file of the batch has reached its terminal state, and not   *)
(* at all in a batch without a successful merge.                           *)
(***************************************************************************)
C18_CompactionOncePerBatch ==
    /\ CountOp("compact") <= 1
    /\ Happened("compact") <=> cmp.stage # "none"
    /\ pc = "done" => (CountOp("compact") = 1 <=> CountOp("merged") > 0)
    /\ \A n \in 1..Len(trace) : trace[n].op = "compact" =>
          /\ n = Len(trace)
          /\ \A k \in 1..Len(excel_files) :
                \E m \in Terminals(excel_files[k]) : m < n

\* Witness of C18: a batch in which one file failed and one was merged has
\* ended with a compaction pass.
C18_Witness ==
    /\ pc = "done"
    /\ CountOp("compact") = 1
    /\ CountOp("failed_empty") + CountOp("failed_append") > 0

(***************************************************************************)
(* C19 Per-file state machine: within one run every listed file is         *)
(* discovered, checked against the ledger, extracted, cleaned and merged   *)
(* in that order, each at most once; a skipped file is not extracted; and  *)
(* when the loop has ended the file is in exactly one of the terminal      *)
(* states skipped, merged or failed.                                       *)
(***************************************************************************)
C19_FileStateMachine ==
    \A k \in 1..Len(excel_files) :
        LET f == excel_files[k]
        IN  /\ Cardinality(When("discovered", f)) = 1
            /\ Cardinality(LedgerChecks(f)) <= 1
            /\ Cardinality(When("extract", f)) <= 1
            /\ Cardinality(When("clean", f)) <= 1
            /\ Cardinality(Terminals(f)) <= 1
            /\ Cardinality({a \in 1..Len(appends) : appends[a].file = f}) <= 1
            /\ \A n \in When("discovered", f) : \A m \in LedgerChecks(f) : n < m
            /\ Before("proceed", "extract", f)
            /\ Before("extract", "clean", f)
            /\ Before("clean", "merged", f)
            /\ Before("clean", "failed_append", f)
            /\ Before("extract", "failed_empty", f)
            /\ When("extract", f) # {} => When("proceed", f) # {}
            /\ When("clean", f) # {} => When("extract", f) # {}
            /\ When("merged", f) # {} => When("clean", f) # {}
            /\ When("skip", f) # {} => When("extract", f) = {}
            /\ When("merged", f) # {} <=> (\E a \in 1..Len(appends) : appends[a].file = f)
            /\ LoopOver => Cardinality(Terminals(f)) = 1

\* Witness of C19: a batch in which one file was skipped and one was merged
\* has ended.
C19_Witness ==
    /\ pc = "done"
    /\ CountOp("skip") = 1
    /\ CountOp("merged") = 1

(***************************************************************************)
(* C20 The statistics of a batch match what happened: files_found is the   *)
(* number of listed candidates, files_skipped the number found in the      *)
(* ledger, files_processed the number of successful appends and            *)
(* duplicates_removed the number of records the compaction pass removed    *)
(* for repeating an earlier key pair.                                      *)
(***************************************************************************)
C20_StatsMatch ==
    pc = "done" =>
        /\ execution_stats.files_found = Len(excel_files)
        /\ execution_stats.files_skipped = CountOp("skip")
        /\ CountOp("skip") = Cardinality({k \in 1..Len(excel_files) : InLedger(k)})
        /\ execution_stats.files_processed = Len(appends)
        /\ execution_stats.duplicates_removed = RemovedForRepeating

\* Witness of C20: 2 listed, 1 in the ledger, 1 new file with a key pair that
\* is in the destination already: 2, 1, 1 and 1.
C20_Witness ==
    /\ pc = "done"
    /\ execution_stats.files_found = 2
    /\ execution_stats.files_skipped = 1
    /\ execution_stats.files_processed = 1
    /\ execution_stats.duplicates_removed = 1

(***************************************************************************)
(* C21 Compaction preserves record identity: every row read by the pass    *)
(* that is not entirely blank is written by the pass, or a row with the    *)
(* same (Skucode, PoNo) pair is written; no key pair of a non-blank record *)
(* disappears.                                                             *)
(***************************************************************************)
C21_IdentityPreserved ==
    (cmp.stage \in {"computed", "cleared", "written"} /\ HasKeyColumns(PreHeaders)) =>
        \A a \in 1..Len(PreRows) : ~RowBlank(PreRows[a]) =>
            \/ a \in SeqRange(cmp.plan.order)
            \/ SamePair(a) \cap SeqRange(cmp.plan.order) # {}

(***************************************************************************)
(* C22 After a pass that completed, the sheet as read back holds no row    *)
(* below the header whose cells are all blank, and no column whose cells   *)
(* below the header are all blank.                                         *)
(***************************************************************************)
C22_NoBlankRowOrColumn ==
    cmp.stage = "written" =>
        /\ \A k \in 2..Len(sheet) : ~RowBlank(sheet[k])
        /\ \A j \in 1..MaxLenOf(sheet) : \E k \in 2..Len(sheet) : Cell(sheet[k], j) # ""

\* Witness of C22: the pass read a blank row and a column without a value
\* below the header, and wrote a table with records.
C22_Witness ==
    /\ cmp.stage = "written"
    /\ Len(sheet) >= 2
    /\ \E a \in 1..Len(PreRows) : RowBlank(PreRows[a])
    /\ \E j \in 1..Len(PreHeaders) : \A a \in 1..Len(PreRows) : PreRows[a][j] = ""

(***************************************************************************)
(* Functions called on their own.  The workflow stands still meanwhile.    *)
(***************************************************************************)
WorkflowIdle ==
    /\ sheet = <<>>
    /\ pc = "idle"
    /\ run = 0
    /\ faults = 0
    /\ execution_stats = NoStats
    /\ excel_files = <<>>
    /\ processed_source_files = {}
    /\ files_to_process = <<>>
    /\ i = 1
    /\ is_first_file = TRUE
    /\ sheet_has_headers = FALSE
    /\ processed_count = 0
    /\ failed_count = 0
    /\ pending = NoPending
    /\ appends = <<>>
    /\ fetched = {}
    /\ merged = {}
    /\ cmp = NoCmp
    /\ trace = <<>>
    /\ excel_result = NoResult

(***************************************************************************)
(* _read_excel_file_robust, strategy by strategy.  The bytes of the file   *)
(* are known by what each parser makes of them under the configured        *)
(* header_row: it raises, or it yields a table.                            *)
(***************************************************************************)
\* A table with one record, marked with the number k of the parser.
StrategyTable(k) == [cols |-> <<"Skucode", "PoNo">>, rows |-> << <<N(k), N(1)>> >>]

\* A table that is not empty and whose only row has no second-column value.
KeylessTable(k) == [cols |-> <<"Skucode", "PoNo">>, rows |-> << <<N(k), NaN>> >>]

Outcomes(k) == {[raises |-> TRUE, df |-> EmptyDf]}
               \cup {[raises |-> FALSE, df |-> d] :
                        d \in {EmptyDf, StrategyTable(k), KeylessTable(k)}}

ExtractNames == {"a.xlsx", "b.xls", "C.XLS", "d.xlsm"}

InitExtract ==
    /\ WorkflowIdle
    /\ call \in {[fn |-> "_read_excel_file_robust", filename |-> n, download_raises |-> d,
                  openpyxl |-> a, xlrd |-> b, raw_xml |-> c] :
                    n \in ExtractNames, d \in BOOLEAN,
                    a \in Outcomes(1), b \in Outcomes(2), c \in Outcomes(3)}
    /\ frame = [pc |-> "download", attempts |-> <<>>, ret |-> EmptyDf]

\* A test that finds every file name eligible for the legacy parser.
LegacyEligible_Always(filename) == TRUE

\* filename.lower().endswith('.xls')
LegacyEligible(filename) ==
    /\ Len(filename) >= 4
    /\ SubSeq(Lower(filename), Len(filename) - 3, Len(filename)) = ".xls"

\* One structured parser: its table, cleaned, is returned when it is not
\* empty; an exception or an empty table leads on to the strategy `next`.
TryParser(engine, next) ==
    LET o == call[engine]
    IN  IF ~o.raises /\ ~DfEmpty(o.df)
        THEN frame' = [pc |-> "returned",
                       attempts |-> Append(frame.attempts, engine),
                       ret |-> _clean_dataframe(o.df)]
        ELSE frame' = [frame EXCEPT !.pc = next, !.attempts = Append(@, engine)]

\* files().get_media and the chunks of the download
ExtractDownload ==
    /\ frame.pc = "download"
    /\ IF call.download_raises
       THEN frame' = [frame EXCEPT !.pc = "returned", !.ret = EmptyDf]
       ELSE frame' = [frame EXCEPT !.pc = "openpyxl"]
    /\ UNCHANGED <<call, workflowVars>>

\* pd.read_excel(engine="openpyxl")
ExtractOpenpyxl ==
    /\ frame.pc = "openpyxl"
    /\ TryParser("openpyxl", "xlrd")
    /\ UNCHANGED <<call, workflowVars>>

\* pd.read_excel(engine="xlrd"), for a file name that ends in .xls
ExtractXlrd ==
    /\ frame.pc = "xlrd"
    /\ IF LegacyEligible(call.filename)
       THEN TryParser("xlrd", "raw_xml")
       ELSE frame' = [frame EXCEPT !.pc = "raw_xml"]
    /\ UNCHANGED <<call, workflowVars>>

\* _try_raw_xml_extraction, which returns an empty DataFrame when it raises.
ExtractRawXml ==
    /\ frame.pc = "raw_xml"
    /\ LET o == call.raw_xml
           df == IF o.raises THEN EmptyDf ELSE o.df
       IN  frame' = [pc |-> "returned",
                     attempts |-> Append(frame.attempts, "raw_xml"),
                     ret |-> IF ~DfEmpty(df) THEN _clean_dataframe(df) ELSE EmptyDf]
    /\ UNCHANGED <<call, workflowVars>>

NextExtract ==
    \/ ExtractDownload
    \/ ExtractOpenpyxl
    \/ ExtractXlrd
    \/ ExtractRawXml

SpecExtract == InitExtract /\ [][NextExtract]_vars

\* The strategies in the order of the chain, for a file name.
StrategyChain(filename) ==
    <<"openpyxl">>
    \o (IF Len(filename) >= 4
           /\ Lower(SubSeq(filename, Len(filename) - 3, Len(filename))) = ".xls"
        THEN <<"xlrd">> ELSE <<>>)
    \o <<"raw_xml">>

\* Strategy s makes a table that is not empty of the bytes.
Yields(s) == ~call[s].raises /\ ~DfEmpty(call[s].df)

(***************************************************************************)
(* C23 Strategy chain: the strategies are attempted in the order modern    *)
(* parser, legacy parser (file names ending in .xls only), archive         *)
(* recovery; the call returns the table of the first strategy that yields  *)
(* a non-empty one and attempts none after it; a strategy that raises      *)
(* counts as one that yields nothing; when none yields a table the call    *)
(* returns an empty table, and it never raises.                            *)
(***************************************************************************)
C23_StrategyChain ==
    LET chain == StrategyChain(call.filename)
        winners == {k \in 1..Len(chain) : Yields(chain[k])}
    IN  /\ frame.pc # "raised"
        /\ frame.attempts = SubSeq(chain, 1, Len(frame.attempts))
        /\ (frame.pc = "returned" /\ ~call.download_raises) =>
              IF winners = {}
              THEN frame.attempts = chain /\ DfEmpty(frame.ret)
              ELSE LET w == CHOOSE k \in winners : \A n \in winners : k <= n
                   IN  /\ frame.attempts = SubSeq(chain, 1, w)
                       /\ frame.ret = _clean_dataframe(call[chain[w]].df)

\* Witness of C23: the modern parser raised on a .xls file, the legacy parser
\* yielded a table, and the archive recovery, which would have yielded
\* another, was not attempted.
C23_Witness ==
    /\ frame.pc = "returned"
    /\ call.openpyxl.raises
    /\ frame.attempts = <<"openpyxl", "xlrd">>
    /\ frame.ret = StrategyTable(2)
    /\ Yields("raw_xml")

(***************************************************************************)
(* _clean_dataframe, step by step, followed by the values _append_to_sheet *)
(* makes of the cleaned table.  The tables have one to three columns and   *)
(* up to MaxCleanRows rows; the second column holds missing values, blank  *)
(* texts, the text "nan", numbers and texts.                               *)
(***************************************************************************)
MaxCleanRows == 2

\* The tables handed to the cleaner.
CleanTables ==
    LET columns == <<"Skucode", "PoNo", "Name">>
        second == {NaN, S(""), S("  "), S("nan"), S("' '"), N(1), S("01")}
        third == {NaN, S("x")}
        CleanRowSet(w) ==
            IF w = 1 THEN {<<N(5)>>, <<NaN>>, <<S(" x")>>}
            ELSE IF w = 2 THEN {<<N(5), k>> : k \in second}
            ELSE {<<N(5), k, t>> : k \in second, t \in third}
        RECURSIVE CleanRowSeqs(_, _)
        CleanRowSeqs(w, n) ==
            IF n = 0 THEN {<<>>}
            ELSE CleanRowSeqs(w, n - 1)
                 \cup {Append(q, r) : q \in {l \in CleanRowSeqs(w, n - 1) : Len(l) = n - 1},
                                      r \in CleanRowSet(w)}
    IN  UNION {{[cols |-> SubSeq(columns, 1, w), rows |-> q] :
                   q \in CleanRowSeqs(w, MaxCleanRows)} : w \in 1..3}

InitClean ==
    /\ WorkflowIdle
    /\ call \in {[fn |-> "_clean_dataframe", df |-> t] : t \in CleanTables}
    /\ frame = [pc |-> "strip", df |-> EmptyDf, stripped |-> EmptyDf, values |-> <<>>]

\* if df.empty: return df; else the object columns are trimmed and de-quoted
CleanStrip ==
    /\ frame.pc = "strip"
    /\ IF DfEmpty(call.df)
       THEN frame' = [frame EXCEPT !.pc = "returned", !.df = call.df]
       ELSE frame' = [frame EXCEPT !.pc = "filter", !.df = StripText(call.df),
                                   !.stripped = StripText(call.df)]
    /\ UNCHANGED <<call, workflowVars>>

\* the second-column mask
CleanFilter ==
    /\ frame.pc = "filter"
    /\ frame' = [frame EXCEPT !.pc = "dedup", !.df = SecondColumnFilter(frame.df)]
    /\ UNCHANGED <<call, workflowVars>>

\* drop_duplicates() and the return
CleanDedup ==
    /\ frame.pc = "dedup"
    /\ frame' = [frame EXCEPT !.pc = "returned", !.df = DropExactDuplicates(frame.df)]
    /\ UNCHANGED <<call, workflowVars>>

\* data_rows of _append_to_sheet for the cleaned table
CleanAppendValues ==
    /\ frame.pc = "returned"
    /\ frame' = [frame EXCEPT !.pc = "values", !.values = AppendValues(frame.df, FALSE)]
    /\ UNCHANGED <<call, workflowVars>>

NextClean ==
    \/ CleanStrip
    \/ CleanFilter
    \/ CleanDedup
    \/ CleanAppendValues

SpecClean == InitClean /\ [][NextClean]_vars

\* A second-column cell that is empty, whitespace-only or the text "nan".
BlankKey(c) ==
    \/ c.t = "nan"
    \/ c.t = "s" /\ \A k \in 1..Len(c.s) : CharAt(c.s, k) = " "
    \/ c.t = "s" /\ Strip(c.s) = "nan"

\* The positions of the trimmed table whose second column is not blank.
ValidRows(df) == {k \in 1..Len(df.rows) : ~BlankKey(df.rows[k][2])}

C25_EmptyCellsBlank ==
    (frame.pc = "values" /\ Len(frame.values) = Len(call.df.rows)) =>
        \A r \in 1..Len(call.df.rows) : \A j \in 1..Len(call.df.cols) :
            LET c == call.df.rows[r][j]
                v == frame.values[r][j]
            IN  /\ c.t = "nan" => v = S("")
                /\ c.t = "n" => v = c
                /\ c.t = "s" => v.t = "s"

(***************************************************************************)
(* _try_raw_xml_extraction: the coordinates of a cell reference.  The      *)
(* references are those the cell pattern matches, [A-Z]+\d+ .              *)
(***************************************************************************)
\* c.isalpha()
IsAlpha(c) == IsUpper(c) \/ (Ord(c) >= Ord("a") /\ Ord(c) <= Ord("z"))

\* ''.join([c for c in cell_ref if c.isalpha()])
RECURSIVE ColLetters(_)
ColLetters(cell_ref) ==
    IF cell_ref = "" THEN ""
    ELSE (IF IsAlpha(CharAt(cell_ref, 1)) THEN CharAt(cell_ref, 1) ELSE "")
         \o ColLetters(SubSeq(cell_ref, 2, Len(cell_ref)))

\* ''.join([c for c in cell_ref if c.isdigit()])
RECURSIVE RowDigits(_)
RowDigits(cell_ref) ==
    IF cell_ref = "" THEN ""
    ELSE (IF IsDigit(CharAt(cell_ref, 1)) THEN CharAt(cell_ref, 1) ELSE "")
         \o RowDigits(SubSeq(cell_ref, 2, Len(cell_ref)))

\* A letter value that starts at 0 for A.
LetterValue_FromZero(c) == Ord(c) - Ord("A")

\* ord(c) - ord('A') + 1
LetterValue(c) == Ord(c) - Ord("A") + 1

\* for c in col_letters: col_num = col_num * 26 + (ord(c) - ord('A') + 1)
RECURSIVE ColNum(_)
ColNum(col_letters) ==
    IF col_letters = "" THEN 0
    ELSE ColNum(SubSeq(col_letters, 1, Len(col_letters) - 1)) * 26
         + LetterValue(CharAt(col_letters, Len(col_letters)))

\* int(''.join(digits))
RowNum(cell_ref) == DigitsValue(RowDigits(cell_ref))

\* The texts of 1 to n characters over a set of characters.
RECURSIVE Words(_, _)
Words(chars, n) ==
    IF n = 0 THEN {""}
    ELSE Words(chars, n - 1)
         \cup {w \o c : w \in {x \in Words(chars, n - 1) : Len(x) = n - 1}, c \in chars}

MaxRefLetters == 2

MaxRefDigits == 2

CellRefs == {l \o d : l \in Words({"A", "B", "Y", "Z"}, MaxRefLetters) \ {""},
                      d \in Words({"0", "1", "9"}, MaxRefDigits) \ {""}}

InitDecode ==
    /\ WorkflowIdle
    /\ call \in {[fn |-> "cell_ref", cell_ref |-> r] : r \in CellRefs}
    /\ frame = [pc |-> "decode", row_num |-> 0, col_num |-> 0]

\* lines 832-836 for one match of the cell pattern
DecodeRef ==
    /\ frame.pc = "decode"
    /\ frame' = [pc |-> "decoded",
                 row_num |-> RowNum(call.cell_ref),
                 col_num |-> ColNum(ColLetters(call.cell_ref))]
    /\ UNCHANGED <<call, workflowVars>>

NextDecode == DecodeRef

SpecDecode == InitDecode /\ [][NextDecode]_vars

\* The value of a text read as a number in base Len(symbols), most
\* significant character first; the first symbol counts as `first`.
RECURSIVE PlaceValue(_, _, _)
PlaceValue(s, symbols, first) ==
    IF s = "" THEN 0
    ELSE LET p == CHOOSE k \in 1..Len(symbols) : CharAt(symbols, k) = CharAt(s, 1)
             rest == SubSeq(s, 2, Len(s))
             RECURSIVE Pow(_)
             Pow(k) == IF k = 0 THEN 1 ELSE Len(symbols) * Pow(k - 1)
         IN  (p - 1 + first) * Pow(Len(rest)) + PlaceValue(rest, symbols, first)

\* The number of leading upper-case letters of a reference.
LetterCount(cell_ref) ==
    CHOOSE n \in 0..Len(cell_ref) :
        /\ \A k \in 1..n : IsUpper(CharAt(cell_ref, k))
        /\ n < Len(cell_ref) => ~IsUpper(CharAt(cell_ref, n + 1))

(***************************************************************************)
(* C26 Column-letter decoding: for a reference made of upper-case letters  *)
(* followed by digits the column is the letters read as a bijective        *)
(* base-26 number (A = 1, Z = 26, AA = 27) and the row is the digits read  *)
(* as a decimal number; "AA10" is row 10, column 27.                       *)
(***************************************************************************)
C26_ColumnLetters ==
    frame.pc = "decoded" =>
        LET n == LetterCount(call.cell_ref)
            letters == SubSeq(call.cell_ref, 1, n)
            digits == SubSeq(call.cell_ref, n + 1, Len(call.cell_ref))
        IN  /\ frame.col_num = PlaceValue(letters, "ABCDEFGHIJKLMNOPQRSTUVWXYZ", 1)
            /\ frame.row_num = PlaceValue(digits, "0123456789", 0)
            /\ letters = "A" => frame.col_num = 1
            /\ letters = "Z" => frame.col_num = 26
            /\ letters = "AA" => frame.col_num = 27
            /\ call.cell_ref = "AA10" => frame.row_num = 10 /\ frame.col_num = 27

\* Witness of C26: "AA10" has been decoded to row 10, column 27.
C26_Witness ==
    /\ frame.pc = "decoded"
    /\ call.cell_ref = "AA10"
    /\ frame.row_num = 10
    /\ frame.col_num = 27

(***************************************************************************)
(* _clean_cell_value.  A Python value is None, an int, a float or a str.   *)
(***************************************************************************)
PyNone == [t |-> "none"]

PyInt(n) == [t |-> "int", n |-> n]

PyFloat(v) == [t |-> "float", v |-> v]

PyText(s) == [t |-> "str", s |-> s]

\* A test that knows the decimal point only.
HasFloatMark_DotOnly(value) == HasChar(value, ".")

\* '.' in value or 'e' in value.lower()
HasFloatMark(value) == HasChar(value, ".") \/ HasChar(Lower(value), "e")

_clean_cell_value(value) ==
    IF value = PyNone THEN PyNone
    ELSE LET v == RemoveQuotes(Strip(value.s))
         IN  IF HasFloatMark(v)
             THEN (IF FloatParses(v) THEN PyFloat(FloatOf(v)) ELSE PyText(v))
             ELSE (IF IntParses(v) THEN PyInt(IntOf(v).num) ELSE PyText(v))

MaxTextLen == 3

\* The texts a cell can hold: every text of up to MaxTextLen characters over
\* a digit, the point, the exponent letter, a letter, the blank and the
\* quote (exponents of one digit: the numbers of the model are 32 bits
\* wide), and some longer ones.
CellTexts == {t \in Words({"1", ".", "e", "a", " ", "'"}, MaxTextLen) :
                 FindChar(t, "e") = 0 \/ Len(t) - FindChar(t, "e") <= 1}
             \cup {"42", "3.14", "1e5", "abc", "1E2", "1_0", "007", " 4'2 ", "' ab'"}

InitCoerce ==
    /\ WorkflowIdle
    /\ call \in {[fn |-> "_clean_cell_value", value |-> v] :
                    v \in {PyNone} \cup {PyText(t) : t \in CellTexts}}
    /\ frame = [pc |-> "called", ret |-> PyNone]

CoerceCell ==
    /\ frame.pc = "called"
    /\ frame' = [pc |-> "returned", ret |-> _clean_cell_value(call.value)]
    /\ UNCHANGED <<call, workflowVars>>

NextCoerce == CoerceCell

SpecCoerce == InitCoerce /\ [][NextCoerce]_vars

\* The number num / 10^scale, written with the shortest scale.
Number(num, scale) == Reduce([num |-> num, scale |-> scale])

(***************************************************************************)
(* C27 CellCoercion: with the text trimmed and then freed of single quotes *)
(* a text with a decimal point or an exponent marker that parses as a      *)
(* number becomes that float, a text without them that parses as an        *)
(* integer becomes that int, a text that does not parse stays that text    *)
(* and None stays None; "42" gives the int 42, "3.14" and "1e5" give the   *)
(* floats 3.14 and 100000.0, "abc" stays "abc".                            *)
(***************************************************************************)
C27_CellCoercion ==
    frame.pc = "returned" =>
        IF call.value = PyNone THEN frame.ret = PyNone
        ELSE LET t == RemoveQuotes(Strip(call.value.s))
                 marked == HasChar(t, ".") \/ HasChar(t, "e") \/ HasChar(t, "E")
             IN  /\ (marked /\ FloatParses(t)) =>
                        frame.ret.t = "float" /\ Reduce(frame.ret.v) = Reduce(FloatOf(t))
                 /\ (~marked /\ IntParses(t)) =>
                        frame.ret = PyInt(DigitsValue(NoUnderscores(Strip(t))))
                 /\ ((marked /\ ~FloatParses(t)) \/ (~marked /\ ~IntParses(t))) =>
                        frame.ret = PyText(t)
                 /\ call.value.s = "42" => frame.ret = PyInt(42)
                 /\ call.value.s = "3.14" =>
                        frame.ret.t = "float" /\ Reduce(frame.ret.v) = Number(314, 2)
                 /\ call.value.s = "1e5" =>
                        frame.ret.t = "float" /\ Reduce(frame.ret.v) = Number(100000, 0)
                 /\ call.value.s = "abc" => frame.ret = PyText("abc")

\* Witness of C27: "1e5", which has an exponent marker and no decimal
\* point, has become the float 100000.0.
C27_Witness ==
    /\ frame.pc = "returned"
    /\ call.value = PyText("1e5")
    /\ frame.ret = PyFloat([num |-> 100000, scale |-> 0])

(***************************************************************************)
(* _try_raw_xml_extraction, step by step.  The archive is known by the     *)
(* texts of its shared-strings part and by the <c> elements of its first   *)
(* worksheet, in document order: the r attribute, the t attribute and the  *)
(* texts of the <v> and <is><t> children, "" for an absent one.  The cell  *)
(* pattern is applied to them as re.findall applies it.                    *)
(***************************************************************************)
MaxCells == 3

RecoverRefs == <<"A1", "B1", "A2", "B2", "A3">>

\* What a <c> element can hold: nothing, the number 0, the number 7, the
\* shared string 0, an inline string (next to a <v>), and a shared-string
\* index that the shared-strings part does not have.
RecoverContents == {[t |-> "", v |-> "", is |-> ""],
                    [t |-> "", v |-> "0", is |-> ""],
                    [t |-> "", v |-> "7", is |-> ""],
                    [t |-> "s", v |-> "0", is |-> ""],
                    [t |-> "inlineStr", v |-> "1", is |-> "x "],
                    [t |-> "s", v |-> "5", is |-> ""]}

\* The <c> elements of a worksheet: up to MaxCells cells in the order of
\* RecoverRefs, from position p on.
RECURSIVE CellSeqs(_, _)
CellSeqs(p, n) ==
    IF n = 0 \/ p > Len(RecoverRefs) THEN {<<>>}
    ELSE CellSeqs(p + 1, n)
         \cup {<<[cell_ref |-> RecoverRefs[p], t |-> c.t, v |-> c.v, is |-> c.is]>> \o q :
                  c \in RecoverContents, q \in CellSeqs(p + 1, n - 1)}

\* re.findall(cell_pattern, content, re.DOTALL) from element k on.  A match
\* starts at a <c> tag.  The [^>]* after the r attribute runs to the end of
\* the tag, so the optional t group that follows it captures nothing.  The
\* optional <v> group looks, behind a lazy .*?, for the next <v> of the
\* document, and the optional <is> group for the next <is><t> behind that;
\* the search for the next match goes on where this match ended.
RECURSIVE FindCells(_, _)
FindCells(content, k) ==
    IF k > Len(content) THEN <<>>
    ELSE LET First(from, field) ==
                 IF \E n \in from..Len(content) : content[n][field] # ""
                 THEN CHOOSE n \in from..Len(content) :
                         /\ content[n][field] # ""
                         /\ \A m \in from..(n - 1) : content[m][field] = ""
                 ELSE 0
             a == First(k, "v")
             b == First(Max(k, a), "is")
         IN  <<[cell_ref |-> content[k].cell_ref,
                cell_type |-> "",
                v_value |-> IF a = 0 THEN "" ELSE content[a].v,
                is_value |-> IF b = 0 THEN "" ELSE content[b].is]>>
             \o FindCells(content, Max(k, Max(a, b)) + 1)

\* The <t> texts of xl/sharedStrings.xml
SharedTexts == <<"Name", " Qty ">>

HeaderRows == {-1, 0, 1}

InitRecover ==
    /\ WorkflowIdle
    /\ call \in {[fn |-> "_try_raw_xml_extraction", worksheet |-> w, content |-> q,
                  header_row |-> h] :
                    w \in BOOLEAN, q \in CellSeqs(1, MaxCells), h \in HeaderRows}
    /\ call.worksheet \/ call.content = <<>>
    /\ frame = [pc |-> "open", cells |-> <<>>, k |-> 1, cell_data |-> <<>>, max_row |-> 0,
                max_col |-> 0, data |-> <<>>, ret |-> EmptyDf]

\* shared_strings.get(v_value, v_value), shared_strings[str(i)] = strings[i].strip()
SharedString(v_value) ==
    IF \E n \in 1..Len(SharedTexts) : IntText(n - 1) = v_value
    THEN Strip(SharedTexts[CHOOSE n \in 1..Len(SharedTexts) : IntText(n - 1) = v_value])
    ELSE v_value

\* lines 838-845: the text of a cell
ResolveCell(c) ==
    IF c.is_value # "" THEN Strip(c.is_value)
    ELSE IF c.cell_type = "s" /\ c.v_value # "" THEN SharedString(c.v_value)
    ELSE IF c.v_value # "" THEN Strip(c.v_value)
    ELSE ""

\* bool(v) of a cell value
Truthy(v) ==
    \/ v.t = "str" /\ v.s # ""
    \/ v.t = "int" /\ v.n # 0
    \/ v.t = "float" /\ v.v.num # 0

\* row_data of lines 856-858
RowData(cell_data, row, max_col) ==
    [col \in 1..max_col |-> IF <<row, col>> \in DOMAIN cell_data
                            THEN cell_data[<<row, col>>] ELSE PyText("")]

\* data of lines 854-860
DenseData(cell_data, max_row, max_col) ==
    FilterIdx([row \in 1..max_row |-> RowData(cell_data, row, max_col)],
              {row \in 1..max_row :
                  \E col \in 1..max_col : Truthy(RowData(cell_data, row, max_col)[col])},
              1)

\* str(h) of a cell value
PyRepr(v) ==
    IF v.t = "str" THEN v.s
    ELSE IF v.t = "int" THEN IntText(v.n)
    ELSE IF v.t = "float"
         THEN (IF Reduce(v.v).scale = 0 THEN NumberText(v.v) \o ".0" ELSE NumberText(v.v))
    ELSE "None"

SyntheticHeaders(n) == [j \in 1..n |-> "Column_" \o IntText(j)]

\* lines 862-873: the DataFrame made of data
ApplyHeader(data, header_row) ==
    IF Len(data) < Max(1, header_row + 2) THEN EmptyDf
    ELSE IF header_row = -1
         THEN [cols |-> SyntheticHeaders(Len(data[1])), rows |-> data]
         ELSE [cols |-> [j \in 1..Len(data[header_row + 1]) |->
                            IF Truthy(data[header_row + 1][j])
                            THEN PyRepr(data[header_row + 1][j])
                            ELSE "Column_" \o IntText(j)],
               rows |-> SubSeq(data, header_row + 2, Len(data))]

\* The archive is opened and the cell pattern applied: no worksheet (or no
\* archive, which raises) and no match end the call with an empty DataFrame.
RecoverOpen ==
    /\ frame.pc = "open"
    /\ IF ~call.worksheet \/ FindCells(call.content, 1) = <<>>
       THEN frame' = [frame EXCEPT !.pc = "returned", !.ret = EmptyDf]
       ELSE frame' = [frame EXCEPT !.pc = "cells", !.cells = FindCells(call.content, 1)]
    /\ UNCHANGED <<call, workflowVars>>

\* One turn of the loop over the matches (lines 831-849).
RecoverCell ==
    /\ frame.pc = "cells"
    /\ frame.k <= Len(frame.cells)
    /\ LET c == frame.cells[frame.k]
           row_num == RowNum(c.cell_ref)
           col_num == ColNum(ColLetters(c.cell_ref))
           value == _clean_cell_value(PyText(ResolveCell(c)))
       IN  frame' = [frame EXCEPT
                        !.k = @ + 1,
                        !.cell_data = [p \in DOMAIN @ \cup {<<row_num, col_num>>} |->
                                          IF p = <<row_num, col_num>> THEN value ELSE @[p]],
                        !.max_row = Max(@, row_num),
                        !.max_col = Max(@, col_num)]
    /\ UNCHANGED <<call, workflowVars>>

\* The dense grid without the rows that hold no value (lines 851-860).
RecoverGrid ==
    /\ frame.pc = "cells"
    /\ frame.k > Len(frame.cells)
    /\ frame' = [frame EXCEPT !.pc = "header",
                              !.data = DenseData(frame.cell_data, frame.max_row,
                                                 frame.max_col)]
    /\ UNCHANGED <<call, workflowVars>>

\* lines 862-873
RecoverHeader ==
    /\ frame.pc = "header"
    /\ frame' = [frame EXCEPT !.pc = "returned",
                              !.ret = ApplyHeader(frame.data, call.header_row)]
    /\ UNCHANGED <<call, workflowVars>>

NextRecover ==
    \/ RecoverOpen
    \/ RecoverCell
    \/ RecoverGrid
    \/ RecoverHeader

SpecRecover == InitRecover /\ [][NextRecover]_vars

\* The grid of the worksheet: the cells seen, by row and column.
GridMaxRow == IF DOMAIN frame.cell_data = {} THEN 0
              ELSE CHOOSE r \in {p[1] : p \in DOMAIN frame.cell_data} :
                      \A p \in DOMAIN frame.cell_data : p[1] <= r

GridMaxCol == IF DOMAIN frame.cell_data = {} THEN 0
              ELSE CHOOSE c \in {p[2] : p \in DOMAIN frame.cell_data} :
                      \A p \in DOMAIN frame.cell_data : p[2] <= c

\* Row r of the grid, the cells never seen being empty.
GridRow(r) == [c \in 1..GridMaxCol |-> IF <<r, c>> \in DOMAIN frame.cell_data
                                       THEN frame.cell_data[<<r, c>>] ELSE PyText("")]

\* A cell that holds a value; the number zero is a value.
NonEmptyCell(v) == v # PyText("") /\ v # PyNone

\* The rows of the grid with a value, in increasing row number.
GridRows == FilterIdx([r \in 1..GridMaxRow |-> GridRow(r)],
                      {r \in 1..GridMaxRow : \E c \in 1..GridMaxCol : NonEmptyCell(GridRow(r)[c])},
                      1)

(***************************************************************************)
(* C28 Header sentinel: with header_row = -1 the recovery of a grid of R   *)
(* rows that hold a value (R >= 1) and N columns returns the columns       *)
(* Column_1 .. Column_N and all R rows as data rows, in order.             *)
(***************************************************************************)
C28_HeaderSentinel ==
    (frame.pc = "returned" /\ call.header_row = -1 /\ Len(GridRows) >= 1) =>
        /\ frame.ret.cols = [j \in 1..GridMaxCol |-> "Column_" \o IntText(j)]
        /\ frame.ret.rows = GridRows

(***************************************************************************)
(* C30 Dense grid: the rows the recovery keeps are exactly the rows r of   *)
(* 1..maxRow that hold a value in some cell (the number zero is a value),  *)
(* in increasing r, each maxCol wide with the cells never seen empty; a    *)
(* row is dropped only when all its cells are empty.                       *)
(***************************************************************************)
C30_DenseGrid ==
    frame.pc = "header" => frame.data = GridRows

(***************************************************************************)
(* C29 Before the ledger is queried in a batch, a destination that is not  *)
(* empty and whose header lacks the tracking column gets the column        *)
(* appended after its header cells, which stay as they are and in order,   *)
(* and nothing else changes; a header that holds the tracking column       *)
(* already is not written.  So the ledger is never queried on a non-empty  *)
(* destination without the tracking column.                                *)
(***************************************************************************)
C29_EnsureColumnAdditive ==
    /\ [][pc = "ensure" =>
            IF sheet # <<>> /\ ~HasTracking(sheet)
            THEN sheet' = [sheet EXCEPT ![1] = Append(sheet[1], "source_file_name")]
            ELSE sheet' = sheet]_vars
    /\ []((pc = "ledger" /\ sheet # <<>>) => HasTracking(sheet))

(***************************************************************************)
(* C31 Header row: with header_row = h >= 0 the recovery returns an empty  *)
(* table when the grid has fewer than h + 2 rows that hold a value;        *)
(* otherwise row h of those rows gives the column names, a blank cell at   *)
(* position i giving Column_i, and exactly the rows after it are the data  *)
(* rows.                                                                   *)
(***************************************************************************)
C31_HeaderRow ==
    (frame.pc = "returned" /\ call.header_row >= 0) =>
        LET h == call.header_row
        IN  IF Len(GridRows) < h + 2 THEN DfEmpty(frame.ret)
            ELSE /\ frame.ret.cols = [j \in 1..GridMaxCol |->
                                         IF NonEmptyCell(GridRows[h + 1][j])
                                         THEN PyRepr(GridRows[h + 1][j])
                                         ELSE "Column_" \o IntText(j)]
                 /\ frame.ret.rows = SubSeq(GridRows, h + 2, Len(GridRows))

(***************************************************************************)
(* C32 Value priority: for every cell of the worksheet the grid holds, at  *)
(* the cell's row and column, the coerced form of the cell's inline string *)
(* when that is not empty; otherwise, for a cell flagged as shared string  *)
(* (t="s"), of the shared-string entry at the index the cell holds;        *)
(* otherwise of the cell's raw value.                                      *)
(***************************************************************************)
C32_ValuePriority ==
    frame.pc = "header" =>
        \A k \in 1..Len(call.content) :
            LET e == call.content[k]
                p == <<RowNum(e.cell_ref), ColNum(ColLetters(e.cell_ref))>>
                indexed == /\ e.t = "s"
                           /\ IntParses(e.v)
                           /\ IntOf(e.v).num < Len(SharedTexts)
                resolved == IF e.is # "" THEN e.is
                            ELSE IF indexed THEN SharedTexts[IntOf(e.v).num + 1]
                            ELSE e.v
            IN  /\ p \in DOMAIN frame.cell_data
                /\ frame.cell_data[p] = _clean_cell_value(PyText(resolved))

SchemaDrift == ColPos(PreHeaders, "Skucode") = 0 \/ ColPos(PreHeaders, "PoNo") = 0

(***************************************************************************)
(* C34 SchemaDrift: when the header lacks a key column, the pass goes on   *)
(* (it stops only when an API call raises), rewrites the destination with  *)
(* every record read that is not entirely blank, none being removed as a   *)
(* duplicate, and reports zero duplicates removed.                         *)
(***************************************************************************)
C34_DriftKeepsRecords ==
    (cmp.stage # "none" /\ SchemaDrift) =>
        /\ cmp.stage # "empty"
        /\ cmp.stage = "failed" => faults > 0
        /\ cmp.stage \in {"computed", "cleared", "written"} =>
              /\ cmp.plan.removed_dup = 0
              /\ SeqRange(cmp.plan.order) = {a \in 1..Len(PreRows) : ~RowBlank(PreRows[a])}
              /\ Len(cmp.plan.order) = Cardinality(SeqRange(cmp.plan.order))
              /\ Len(cmp.plan.values) = Len(cmp.plan.order) + 1
        /\ cmp.stage = "written" =>
              /\ sheet = Normalize(GridTexts(cmp.plan.values))
              /\ execution_stats.duplicates_removed = 0
        /\ pc = "done" => execution_stats.duplicates_removed = 0

\* Witness of C34: a pass on a destination without the PoNo column, in which
\* two records hold the same first two cells, has completed and kept both.
C34_Witness ==
    /\ cmp.stage = "written"
    /\ ColPos(PreHeaders, "PoNo") = 0
    /\ \E a, b \in 1..Len(PreRows) :
          /\ a < b
          /\ ~RowBlank(PreRows[a])
          /\ SubSeq(PreRows[a], 1, 2) = SubSeq(PreRows[b], 1, 2)
          /\ {a, b} \subseteq SeqRange(cmp.plan.order)
    /\ Len(sheet) = Len(cmp.plan.order) + 1

(***************************************************************************)
(* C35 SchemaDrift: when the header lacks a key column, the pass skips the *)
(* blank-pruning step and the sort step: every row read, the entirely      *)
(* blank ones included, is written in the order read, and every column     *)
(* read is written.                                                        *)
(***************************************************************************)
C35_DriftSkipsPruningAndSort ==
    (cmp.stage \in {"computed", "cleared", "written"} /\ SchemaDrift) =>
        /\ cmp.plan.order = [a \in 1..Len(PreRows) |-> a]
        /\ cmp.plan.cols = [j \in 1..Len(PreHeaders) |-> j]

\* The position of file f in the listing of the run.
ListingPos(f) == CHOOSE k \in 1..Len(excel_files) : excel_files[k] = f

(***************************************************************************)
(* C36 Files are handled one at a time in listing order: when the          *)
(* extraction of a file starts, every file listed before it has reached    *)
(* its terminal state, and what happens between the start of an extraction *)
(* and the file's terminal state happens to that file; before compaction   *)
(* the rows of the merged files lie in the destination in the order in     *)
(* which the files were listed.                                            *)
(***************************************************************************)
C36_SequentialInOrder ==
    /\ \A n \in 1..Len(trace) : (pc # "idle" /\ trace[n].op = "extract") =>
          /\ \A k \in 1..(ListingPos(trace[n].file) - 1) :
                \E m \in Terminals(excel_files[k]) : m < n
          /\ \E m \in Terminals(trace[n].file) :
                /\ n < m
                /\ \A x \in n..m : trace[x].file = trace[n].file
    /\ pc \in {"loop", "compact"} =>
          \A a \in 1..Len(appends) :
              /\ SubSeq(sheet, Len(appends[a].before) + 1, Len(AfterAppend(a)))
                    = AppendedRows(a)
              /\ \A b \in (a + 1)..Len(appends) :
                    /\ ListingPos(appends[a].file) < ListingPos(appends[b].file)
                    /\ Len(AfterAppend(a)) <= Len(appends[b].before)

\* Witness of C36: two listed files have been merged and the compaction pass
\* has not started.
C36_Witness ==
    /\ pc = "compact"
    /\ Len(appends) = 2
    /\ appends[1].file = excel_files[1]
    /\ appends[2].file = excel_files[2]
    /\ Len(sheet) > Len(appends[2].before)

(***************************************************************************)
(* _extract_attachments_from_email, called for the same message in         *)
(* consecutive runs.  The payload is known by the file names of its parts; *)
(* the sender's Drive folder starts empty and keeps what is uploaded.      *)
(***************************************************************************)
MaxParts == 2

\* re.sub(r'[<>:"/\\|?*]', '_', filename) and the cut to 100 characters
_sanitize_filename(filename) ==
    LET RECURSIVE Sub(_)
        Sub(t) == IF Len(t) > 1
                  THEN Sub(SubSeq(t, 1, Len(t) \div 2))
                       \o Sub(SubSeq(t, Len(t) \div 2 + 1, Len(t)))
                  ELSE IF t \in {"<", ">", ":", "\"", "/", "\\", "|", "?", "*"} THEN "_"
                  ELSE t
        cleaned == Sub(filename)
        dots == {k \in 1..Len(cleaned) : CharAt(cleaned, k) = "."}
        last == CHOOSE k \in dots : \A m \in dots : m <= k
    IN  IF Len(cleaned) <= 100 THEN cleaned
        ELSE IF dots = {} THEN SubSeq(cleaned, 1, 100)
        ELSE SubSeq(cleaned, 1, IF last - 1 < 95 THEN last - 1 ELSE 95)
             \o "." \o SubSeq(cleaned, last + 1, Len(cleaned))

\* filename.lower().endswith(('.xls', '.xlsx', '.xlsm'))
IsExcelName(filename) ==
    \E ext \in {".xls", ".xlsx", ".xlsm"} :
        /\ Len(filename) >= Len(ext)
        /\ SubSeq(Lower(filename), Len(filename) - Len(ext) + 1, Len(filename)) = ext

AttachNames == {"a.xlsx", "a:b.XLS", "a_b.xls", "n.txt", "r.xlsm"}

NoCounts == [saved |-> 0, skipped |-> 0, failed |-> 0, found |-> 0]

InitAttach ==
    /\ WorkflowIdle
    /\ call \in {[fn |-> "_extract_attachments_from_email", message_id |-> "m1", parts |-> q] :
                    q \in UNION {[1..n -> AttachNames] : n \in 1..MaxParts}}
    /\ frame = [pc |-> "idle", run |-> 0, k |-> 1, folder |-> <<>>, counts |-> NoCounts,
                faults |-> 0, log |-> <<>>]

\* The call for a payload with parts: the counts start at zero.
AttachBegin ==
    /\ frame.pc = "idle"
    /\ frame.run < MaxRuns
    /\ frame' = [frame EXCEPT !.pc = "parts", !.run = @ + 1, !.k = 1, !.counts = NoCounts]
    /\ UNCHANGED <<call, workflowVars>>

\* One part (lines 654-704).  _create_drive_folder returns "" when its call
\* raises, and nothing is listed in or uploaded to the folder "";
\* _get_existing_files_in_folder returns an empty set when its call raises.
AttachPart ==
    /\ frame.pc = "parts"
    /\ frame.k <= Len(call.parts)
    /\ LET filename == call.parts[frame.k]
           final_filename == call.message_id \o "_" \o _sanitize_filename(filename)
           Outcome(o, existing_files) ==
               [frame EXCEPT !.k = @ + 1,
                             !.counts = [@ EXCEPT ![o] = @ + 1, !.found = @ + 1],
                             !.folder = IF o = "saved" THEN Append(@, final_filename) ELSE @,
                             !.log = Append(@, [name |-> final_filename,
                                                in_folder |-> final_filename \in SeqRange(frame.folder),
                                                outcome |-> o])]
       IN  IF ~IsExcelName(filename)
           THEN frame' = [frame EXCEPT !.k = @ + 1]
           ELSE \E folder_raises, listing_raises, upload_raises \in BOOLEAN :
                   LET raised == Cardinality({x \in {<<1, folder_raises>>, <<2, listing_raises>>,
                                                     <<3, upload_raises>>} : x[2]})
                       existing_files == IF folder_raises \/ listing_raises THEN {}
                                         ELSE SeqRange(frame.folder)
                       skip == final_filename \in existing_files
                   IN  /\ frame.faults + raised <= MaxFaults
                       /\ folder_raises => ~listing_raises /\ ~upload_raises
                       /\ skip => ~upload_raises
                       /\ frame' = [Outcome(IF skip THEN "skipped"
                                            ELSE IF folder_raises \/ upload_raises THEN "failed"
                                            ELSE "saved", existing_files)
                                       EXCEPT !.faults = @ + raised]
    /\ UNCHANGED <<call, workflowVars>>

\* return (saved_count, skipped_count, failed_count, found_count)
AttachReturn ==
    /\ frame.pc = "parts"
    /\ frame.k > Len(call.parts)
    /\ frame' = [frame EXCEPT !.pc = "idle"]
    /\ UNCHANGED <<call, workflowVars>>

NextAttach ==
    \/ AttachBegin
    \/ AttachPart
    \/ AttachReturn

SpecAttach == InitAttach /\ [][NextAttach]_vars

(***************************************************************************)
(* C37 Attachment duplicate protection: an Excel attachment whose final    *)
(* name is in the sender's folder is counted as skipped and not uploaded,  *)
(* so no final name is uploaded twice over the runs that process the       *)
(* email, also when a call that lists the folder fails.                    *)
(***************************************************************************)
C37_UploadedOnce ==
    /\ \A n \in 1..Len(frame.log) :
          frame.log[n].in_folder => frame.log[n].outcome = "skipped"
    /\ \A a, b \in 1..Len(frame.folder) : a # b => frame.folder[a] # frame.folder[b]

(***************************************************************************)
(* The compaction pass called again on the destination a completed pass    *)
(* has just written, with no write in between.                             *)
(***************************************************************************)
CompactAgain ==
    /\ pc = "done"
    /\ cmp.stage = "written"
    /\ run = 1
    /\ run' = 2
    /\ pc' = "compact"
    /\ cmp' = NoCmp
    /\ UNCHANGED <<sheet, faults, execution_stats, batchVars, pending, appends, fetched,
                   merged, trace, excel_result>>
    /\ UNCHANGED unitVars

NextCompactTwice ==
    \/ CompactRead
    \/ CompactClear
    \/ CompactUpdate
    \/ CompactAgain

SpecCompactTwice == InitCompact /\ [][NextCompactTwice]_vars

(***************************************************************************)
(* C39 The pass is idempotent: called on a destination that a completed    *)
(* pass has just written, it removes no record, as a duplicate or as a     *)
(* blank row, and writes the content it read, in the same row order; also  *)
(* when the first pass wrote numeric-looking key texts as numbers.         *)
(***************************************************************************)
C39_Idempotent ==
    (run = 2 /\ cmp.stage \in {"computed", "cleared", "written"}) =>
        /\ cmp.plan.removed_dup = 0
        /\ cmp.plan.removed_clean = 0
        /\ Normalize(GridTexts(cmp.plan.values)) = cmp.pre

(***************************************************************************)
(* Count conservation of the Drive-to-Sheets batch.                        *)
(***************************************************************************)
\* C38: whenever process_excel_workflow has returned success, in the first
\* run and in every later run on the same instance, the files found are the
\* files skipped plus the files processed plus the files that failed, and
\* the three counts are those of this run: its skip, merged and failed
\* events.
C38_CountConservation ==
    (excel_result.returned /\ excel_result.success) =>
        LET Count(ops) == Cardinality({k \in 1..Len(trace) : trace[k].op \in ops})
        IN  /\ execution_stats.files_found =
                   execution_stats.files_skipped + execution_stats.files_processed
                   + execution_stats.files_failed
            /\ execution_stats.files_found = Count({"discovered"})
            /\ execution_stats.files_skipped = Count({"skip"})
            /\ execution_stats.files_processed = Count({"merged"})
            /\ execution_stats.files_failed = Count({"failed_empty", "failed_append"})

\* A second run has returned success after skipping a file the first run
\* merged and failing on another, the first run having merged or failed too.
C38_Witness ==
    /\ run = 2
    /\ excel_result.returned /\ excel_result.success
    /\ merged # {}
    /\ execution_stats.files_skipped = 1
    /\ execution_stats.files_failed = 1
    /\ execution_stats.files_found = 2

(***************************************************************************)
(* run_complete_workflow called on its own: authentication, the two        *)
(* workflows, the summary row and the notification.  Each of the five      *)
(* functions it calls catches its own exceptions, so the except clause of  *)
(* run_complete_workflow (lines 1333-1343) is never entered and has no     *)
(* action.  The workflows are one step each here; the steps inside the     *)
(* Drive-to-Sheets batch are those of Spec.                                *)
(***************************************************************************)
\* self.email_recipients
email_recipients == <<"keyur@thebakersdozen.in", "me">>

\* The statistics of a run that are looked at here, after the reset.
NoRunStats == [emails_checked |-> 0, files_found |-> 0, errors |-> <<>>,
               end_time |-> FALSE]

\* A caller that gives up when the Gmail-to-Drive workflow reports failure.
AfterGmail_Abort(gmail_result) == IF gmail_result.success THEN "excel" ELSE "idle"

\* excel_result = self.process_excel_workflow() follows whatever gmail_result is.
AfterGmail(gmail_result) == "excel"

InitComplete ==
    /\ WorkflowIdle
    /\ call = [fn |-> "run_complete_workflow"]
    /\ frame = [pc |-> "idle", run |-> 0, faults |-> 0, stats |-> NoRunStats,
                auth_ok |-> FALSE, gmail_result |-> NoResult, excel_result |-> NoResult,
                log |-> <<>>, summary_sheet |-> <<>>, appended |-> 0, sent |-> <<>>,
                ret |-> "none"]

\* The statistics are replaced by fresh ones (lines 1272-1286).
CompleteBegin ==
    /\ frame.pc = "idle"
    /\ frame.run < MaxRuns
    /\ frame' = [frame EXCEPT !.pc = "auth", !.run = @ + 1, !.stats = NoRunStats,
                              !.auth_ok = FALSE, !.gmail_result = NoResult,
                              !.excel_result = NoResult, !.log = <<>>, !.appended = 0,
                              !.sent = <<>>, !.ret = "none"]
    /\ UNCHANGED <<call, workflowVars>>

\* if not self.authenticate(): return False.  authenticate returns False
\* without credentials and when anything in it raises (lines 196-210).
CompleteAuthenticate ==
    /\ frame.pc = "auth"
    /\ \E ok \in BOOLEAN :
          frame' = [frame EXCEPT !.auth_ok = ok,
                                 !.log = Append(@, "authenticate"),
                                 !.pc = IF ok THEN "gmail" ELSE "idle",
                                 !.ret = IF ok THEN "none" ELSE "False"]
    /\ UNCHANGED <<call, workflowVars>>

\* gmail_result = self.process_gmail_workflow(): the search finds emails or
\* none, or raises and returns [] (lines 278-281); with emails, the base
\* folder is created, or _create_drive_folder raises inside and returns ""
\* and the workflow reports failure (lines 307-309).
CompleteGmail ==
    /\ frame.pc = "gmail"
    /\ \E emails \in 0..1, raised \in BOOLEAN :
          /\ raised => frame.faults < MaxFaults
          /\ LET searched == IF raised /\ emails = 0
                             THEN [frame.stats EXCEPT !.errors = Append(@, "Email search")]
                             ELSE [frame.stats EXCEPT !.emails_checked = emails]
                 result == [returned |-> TRUE, success |-> ~(raised /\ emails > 0),
                            processed |-> 0]
             IN  frame' = [frame EXCEPT !.stats = searched,
                                        !.gmail_result = result,
                                        !.faults = IF raised THEN @ + 1 ELSE @,
                                        !.log = Append(@, "gmail"),
                                        !.pc = AfterGmail(result),
                                        !.ret = IF AfterGmail(result) = "idle"
                                                THEN "False" ELSE "none"]
    /\ UNCHANGED <<call, workflowVars>>

\* excel_result = self.process_excel_workflow(), then end_time (line 1299).
CompleteExcel ==
    /\ frame.pc = "excel"
    /\ \E found \in 0..MaxListing :
          frame' = [frame EXCEPT !.stats = [@ EXCEPT !.files_found = found,
                                                     !.end_time = TRUE],
                                 !.excel_result = [returned |-> TRUE, success |-> TRUE,
                                                   processed |-> 0],
                                 !.log = Append(@, "excel"),
                                 !.pc = "summary"]
    /\ UNCHANGED <<call, workflowVars>>

\* self._log_execution_summary(): the header row goes with the summary row
\* when A1 of the summary sheet is empty or its read raises; nothing is
\* appended when the append raises.
CompleteLogSummary ==
    /\ frame.pc = "summary"
    /\ \E read_raises \in BOOLEAN, append_raises \in BOOLEAN :
          LET raised == (IF read_raises THEN 1 ELSE 0) + (IF append_raises THEN 1 ELSE 0)
              has_headers == ~read_raises /\ frame.summary_sheet # <<>>
              values == (IF has_headers THEN <<>> ELSE <<"headers">>) \o <<"summary_row">>
          IN  /\ frame.faults + raised <= MaxFaults
              /\ frame' = [frame EXCEPT
                     !.summary_sheet = IF append_raises THEN @ ELSE @ \o values,
                     !.appended = IF append_raises THEN @ ELSE @ + 1,
                     !.faults = @ + raised,
                     !.log = Append(@, "summary"),
                     !.pc = "notify"]
    /\ UNCHANGED <<call, workflowVars>>

\* self._send_email_notification(), one message per recipient, a failing
\* send is logged and the next recipient follows; then return True.
CompleteSendNotification ==
    /\ frame.pc = "notify"
    /\ \E profile_raises \in BOOLEAN, failing \in SUBSET (1..Len(email_recipients)) :
          LET raised == (IF profile_raises THEN 1 ELSE 0) + Cardinality(failing)
              user_email == IF profile_raises THEN "automation@bigbasket.com"
                            ELSE "user@gmail.com"
              To(k) == IF email_recipients[k] = "me" THEN user_email
                       ELSE email_recipients[k]
              RECURSIVE Sent(_)
              Sent(k) == IF k > Len(email_recipients) THEN <<>>
                         ELSE (IF k \in failing THEN <<>> ELSE <<To(k)>>) \o Sent(k + 1)
          IN  /\ frame.faults + raised <= MaxFaults
              /\ frame' = [frame EXCEPT !.sent = Sent(1),
                                        !.faults = @ + raised,
                                        !.log = Append(@, "notify"),
                                        !.pc = "idle",
                                        !.ret = "True"]
    /\ UNCHANGED <<call, workflowVars>>

NextComplete ==
    \/ CompleteBegin
    \/ CompleteAuthenticate
    \/ CompleteGmail
    \/ CompleteExcel
    \/ CompleteLogSummary
    \/ CompleteSendNotification

SpecComplete == InitComplete /\ [][NextComplete]_vars

(***************************************************************************)
(* C40 Order of a complete run: after authentication the Gmail-to-Drive    *)
(* workflow, then the Drive-to-Sheets workflow whatever the first          *)
(* reported, then the summary and then the notification, each called once. *)
(***************************************************************************)
\* C40: at every moment the calls of the run so far are a prefix of
\* authenticate, Gmail workflow, Excel workflow, summary, notification (so
\* Gmail comes before Excel, and summary and notification come after both
\* and at most once); a run that has returned after passing authentication
\* made all five calls, also when the Gmail workflow reported failure; a run
\* whose authentication failed made none but authenticate; a run adds at
\* most one summary row and at most one message per recipient.
C40_RunOrder ==
    LET steps == <<"authenticate", "gmail", "excel", "summary", "notify">>
        returned == frame.pc = "idle" /\ frame.run > 0
    IN  /\ Len(frame.log) <= Len(steps)
        /\ frame.log = SubSeq(steps, 1, Len(frame.log))
        /\ (returned /\ frame.auth_ok) => (frame.log = steps /\ frame.ret = "True")
        /\ (returned /\ ~frame.auth_ok) =>
               (frame.log = <<"authenticate">> /\ frame.ret = "False")
        /\ frame.appended <= 1
        /\ Len(frame.sent) <= Len(email_recipients)
        /\ \A a, b \in 1..Len(frame.sent) : frame.sent[a] = frame.sent[b] => a = b

\* A second run has returned True after its Gmail workflow reported failure:
\* the Excel workflow, the summary and the notification were still called.
C40_Witness ==
    /\ frame.run = 2
    /\ frame.pc = "idle"
    /\ frame.ret = "True"
    /\ frame.gmail_result.returned /\ ~frame.gmail_result.success
    /\ frame.excel_result.returned
    /\ frame.log = <<"authenticate", "gmail", "excel", "summary", "notify">>
    /\ Len(frame.sent) = 2

\* A run whose authentication failed has returned False.
C40_AuthFailed ==
    /\ frame.run > 0
    /\ frame.pc = "idle"
    /\ frame.ret = "False"
    /\ frame.log = <<"authenticate">>
====
